---------------------------- MODULE Spec2Model ----------------------------
(***************************************************************************)
(* RustySpider: the spider binary (src/main.rs) and the modules it drives: *)
(* the predictor and the query formatter (modules/content.rs), the         *)
(* two-stage web crawler (modules/crawlers.rs), the qBittorrent fetcher    *)
(* (modules/fetchers.rs) and the TOML stores (modules/serialize.rs).       *)
(*                                                                         *)
(* Text is modelled as a sequence of one-character strings, so that        *)
(* formatting, lower-casing, splitting and substring search are computed   *)
(* and not assumed.                                                        *)
(***************************************************************************)
EXTENDS Integers, Sequences, FiniteSets, TLC

(***************************************************************************)
(* Bounds of the model.                                                    *)
(***************************************************************************)
\* Largest season/episode counter of a stored record (besides the fixed
\* multi-digit samples of CounterSamples).
MaxCounter == 2
\* Largest padding width (Content.digits) of a stored record.
MaxDigits == 2
\* Largest number of records in the content store.
MaxRecords == 2
\* The width in bits at which the counters (u32 in the program) are modelled:
\* a counter overflows at 2^CounterBits - 1 the way a u32 does at 2^32 - 1.
CounterBits == 8

(***************************************************************************)
(* Text.                                                                   *)
(***************************************************************************)
LowerChars ==
    <<"a", "b", "c", "d", "e", "f", "g", "h", "i", "j", "k", "l", "m",
      "n", "o", "p", "q", "r", "s", "t", "u", "v", "w", "x", "y", "z">>
UpperChars ==
    <<"A", "B", "C", "D", "E", "F", "G", "H", "I", "J", "K", "L", "M",
      "N", "O", "P", "Q", "R", "S", "T", "U", "V", "W", "X", "Y", "Z">>
DigitChars == <<"0", "1", "2", "3", "4", "5", "6", "7", "8", "9">>
\* char::is_whitespace, on the characters of the model.
WhitespaceChars == {" ", "\t", "\n"}

\* char::to_lowercase on one character.
LowerChar(ch) ==
    IF \E n \in 1..Len(UpperChars) : UpperChars[n] = ch
    THEN LowerChars[CHOOSE n \in 1..Len(UpperChars) : UpperChars[n] = ch]
    ELSE ch

\* str::to_lowercase
to_lowercase(s) == [n \in 1..Len(s) |-> LowerChar(s[n])]

\* str::contains(&str): w occurs in s as a contiguous substring.
contains(s, w) ==
    \E o \in 0..(Len(s) - Len(w)) : SubSeq(s, o + 1, o + Len(w)) = w

\* str::starts_with
starts_with(s, p) == Len(s) >= Len(p) /\ SubSeq(s, 1, Len(p)) = p

\* str::split_whitespace: the maximal runs of non-whitespace characters, in
\* order; never an empty word.
RECURSIVE SplitFrom(_, _, _)
SplitFrom(s, n, word) ==
    IF n > Len(s)
    THEN IF word = <<>> THEN <<>> ELSE <<word>>
    ELSE IF s[n] \in WhitespaceChars
         THEN (IF word = <<>> THEN <<>> ELSE <<word>>) \o SplitFrom(s, n + 1, <<>>)
         ELSE SplitFrom(s, n + 1, Append(word, s[n]))
split_whitespace(s) == SplitFrom(s, 1, <<>>)

\* The decimal digits of a natural number (Display of an unsigned integer).
RECURSIVE Decimal(_)
Decimal(n) ==
    IF n < 10 THEN <<DigitChars[n + 1]>>
    ELSE Decimal(n \div 10) \o <<DigitChars[(n % 10) + 1]>>

\* format!("{:0width$}", n): zero-padded on the left to at least `width`
\* characters; a longer number is not cut.
ZeroPad(n, width) ==
    LET d == Decimal(n)
    IN IF Len(d) >= width THEN d
       ELSE [m \in 1..(width - Len(d)) |-> "0"] \o d

(***************************************************************************)
(* modules/types.rs, modules/content.rs: the Content record.               *)
(***************************************************************************)
\* Content::new
Content(prefix, title, first_prefix, first, second_prefix, second, digits, postfix) ==
    [prefix |-> prefix, title |-> title,
     first_prefix |-> first_prefix, first |-> first,
     second_prefix |-> second_prefix, second |-> second,
     digits |-> digits, postfix |-> postfix]

\* A step of two.
AddTwo(x) == x + 2

\* u32::MAX, at the width of the model.
U32Max == 2^CounterBits - 1

\* The u32 `+= 1` of the predictor where it returns: the successor, which
\* for u32::MAX wraps to 0 (a build without overflow checks, as the release
\* profile is).
AddOne(x) == (x + 1) % (U32Max + 1)

\* content.rs 38, 40: whether one of the two `+= 1` of the predictor
\* overflows; a build with overflow checks (as the dev profile is) panics
\* there.
Overflows(self) == self.second = U32Max \/ self.first = U32Max

\* The predictor with its two candidates in the other order.
predict_season_first(self) ==
    LET next_episode == [self EXCEPT !.second = AddOne(self.second)]
        next_season == [self EXCEPT !.second = 1, !.first = AddOne(self.first)]
    IN <<next_season, next_episode>>

\* Predictable::predict_new_content: [next episode, next season].
predict_new_content(self) ==
    LET next_episode == [self EXCEPT !.second = AddOne(self.second)]
        next_season == [self EXCEPT !.second = 1, !.first = AddOne(self.first)]
    IN <<next_episode, next_season>>

\* Searchable::to_query:
\*   format!("{}{} {}{:0digits$}{}{:0digits$}{}", prefix, title, first_prefix,
\*           first, second_prefix, second, postfix)
to_query(self) ==
    self.prefix \o self.title \o <<" ">>
      \o self.first_prefix \o ZeroPad(self.first, self.digits)
      \o self.second_prefix \o ZeroPad(self.second, self.digits)
      \o self.postfix

\* The derived Display of Content:
\*   "{prefix}{title} {first_prefix}{first:0digits$} {second_prefix}{second:0digits$}{postfix}"
Display(self) ==
    self.prefix \o self.title \o <<" ">>
      \o self.first_prefix \o ZeroPad(self.first, self.digits) \o <<" ">>
      \o self.second_prefix \o ZeroPad(self.second, self.digits)
      \o self.postfix

(***************************************************************************)
(* modules/crawlers.rs: the keyword filter.                                *)
(***************************************************************************)
\* The lower-cased words of the keywords (crawlers.rs 39-42).
KeywordWords(keywords) ==
    LET raw == split_whitespace(keywords)
    IN [n \in 1..Len(raw) |-> to_lowercase(raw[n])]

\* The filter's predicate with the item lower-cased as well.
KeepsItemAnyCase(s, words) ==
    \A n \in 1..Len(words) : contains(to_lowercase(s), words[n])

\* The filter's predicate (crawlers.rs 46-48): every word is a substring of
\* the item, which is taken as it is.
KeepsItem(s, words) == \A n \in 1..Len(words) : contains(s, words[n])

\* filter_by_keywords: the kept items, in their order.
filter_by_keywords(items, keywords) ==
    LET words == KeywordWords(keywords)
        Keep(s) == KeepsItem(s, words)
    IN SelectSeq(items, Keep)


(***************************************************************************)
(* URLs (the url crate), as far as the crawler and the fetcher use them.   *)
(* A parsed URL is its origin "h://host", its path and its query pairs;    *)
(* "h" stands for the http scheme and "m:" opens an opaque (magnet) URL.   *)
(***************************************************************************)
Scheme == <<"h", ":", "/", "/">>
OpaqueScheme == <<"m", ":">>

\* Position of the first "/" of s at or after position n; Len(s) + 1 if none.
RECURSIVE SlashFrom(_, _)
SlashFrom(s, n) ==
    IF n > Len(s) THEN Len(s) + 1
    ELSE IF s[n] = "/" THEN n ELSE SlashFrom(s, n + 1)

\* Position of the last "/" of s; 0 if none.
RECURSIVE LastSlash(_, _)
LastSlash(s, n) ==
    IF n = 0 THEN 0 ELSE IF s[n] = "/" THEN n ELSE LastSlash(s, n - 1)

NoUrl == [origin |-> <<>>, path |-> <<>>, query |-> <<>>]
ParseErr == [ok |-> FALSE, url |-> NoUrl]

\* Url::parse: an absolute URL with a non-empty host (an empty host is
\* ParseError::EmptyHost); a missing path is "/"; an opaque URL is kept whole.
UrlParse(s) ==
    IF starts_with(s, OpaqueScheme)
    THEN [ok |-> TRUE, url |-> [origin |-> s, path |-> <<>>, query |-> <<>>]]
    ELSE IF ~starts_with(s, Scheme) THEN ParseErr
    ELSE LET host_end == SlashFrom(s, Len(Scheme) + 1)
         IN IF host_end = Len(Scheme) + 1 THEN ParseErr
            ELSE [ok |-> TRUE,
                  url |-> [origin |-> SubSeq(s, 1, host_end - 1),
                           path |-> IF host_end > Len(s) THEN <<"/">>
                                    ELSE SubSeq(s, host_end, Len(s)),
                           query |-> <<>>]]

\* Url::join: an absolute reference is parsed on its own; an empty one is the
\* base; one that starts with "/" replaces the path; any other replaces the
\* last segment of the base's path.  The base's query is dropped except for
\* the empty reference.
UrlJoin(base, href) ==
    IF starts_with(href, Scheme) \/ starts_with(href, OpaqueScheme)
    THEN UrlParse(href)
    ELSE IF href = <<>> THEN [ok |-> TRUE, url |-> base]
    ELSE IF href[1] = "/"
    THEN [ok |-> TRUE, url |-> [origin |-> base.origin, path |-> href, query |-> <<>>]]
    ELSE [ok |-> TRUE,
          url |-> [origin |-> base.origin,
                   path |-> SubSeq(base.path, 1, LastSlash(base.path, Len(base.path))) \o href,
                   query |-> <<>>]]

\* application/x-www-form-urlencoded, on the characters of the model: a space
\* becomes "+".
FormEncode(s) == [n \in 1..Len(s) |-> IF s[n] = " " THEN "+" ELSE s[n]]

RECURSIVE QueryString(_, _)
QueryString(pairs, n) ==
    IF n > Len(pairs) THEN <<>>
    ELSE (IF n = 1 THEN <<"?">> ELSE <<"&">>)
           \o FormEncode(pairs[n][1]) \o <<"=">> \o FormEncode(pairs[n][2])
           \o QueryString(pairs, n + 1)

\* Url::as_str / to_string
UrlString(u) == u.origin \o u.path \o QueryString(u.query, 1)

\* url.query_pairs_mut().append_pair(name, value)
append_pair(u, name, value) == [u EXCEPT !.query = Append(@, <<name, value>>)]

\* HeaderValue::from_str / str::parse::<HeaderValue>: control characters are
\* rejected.
HeaderValueOk(v) == \A n \in 1..Len(v) : v[n] \notin {"\n", "\r"}

(***************************************************************************)
(* HTTP responses and HTML documents, as the environment hands them over.  *)
(* A response is a transport error or a status with a body; an HTML body   *)
(* is the sequence of its elements in document order, each with the        *)
(* selectors it matches and its href attribute, if any; a text body is a   *)
(* string.                                                                 *)
(***************************************************************************)
Response(transport_ok, status, body) ==
    [transport_ok |-> transport_ok, status |-> status, body |-> body]

\* send()?.error_for_status()?.text()?: send fails on a transport error,
\* error_for_status on a client or server error status (400-599); any other
\* answer that reaches the caller, 3xx included (redirects the client does
\* not follow: 300, 304, no Location), yields its body.
ResponseOk(r) == r.transport_ok /\ ~(r.status >= 400 /\ r.status <= 599)

Element(matches, has_href, href) ==
    [matches |-> matches, has_href |-> has_href, href |-> href]

\* Selector::parse: the selectors the scraper crate accepts, of those the
\* model uses.
ValidSelectors == {"a.result", "a.magnet"}
SelectorOk(sel) == sel \in ValidSelectors

\* A loop that takes a missing href for an empty one and pushes whatever the
\* join gives.
ContributesAnyHref(url, a, sel) == sel \in a.matches

\* crawlers.rs 81-83: the element is selected, if let Some(href), if let
\* Ok(resolved) = url.join(href).
Contributes(url, a, sel) == sel \in a.matches /\ a.has_href /\ UrlJoin(url, a.href).ok

\* parsed_html.select(&links_sel), for a in ..: if let Some(href), if let
\* Ok(resolved) = url.join(href): the resolved links of the matching elements,
\* in document order (crawlers.rs 80-87).
RECURSIVE ResolvedLinks(_, _, _, _)
ResolvedLinks(url, body, sel, n) ==
    IF n > Len(body) THEN <<>>
    ELSE LET a == body[n]
             resolved == UrlJoin(url, a.href)
         IN (IF Contributes(url, a, sel)
             THEN <<UrlString(resolved.url)>> ELSE <<>>)
              \o ResolvedLinks(url, body, sel, n + 1)

\* A loop without the `break`: the last resolved link.
LastResolvedLink(url, body, sel) ==
    LET links == ResolvedLinks(url, body, sel, 1)
    IN IF links = <<>> THEN <<>> ELSE links[Len(links)]

\* The stage-2 loop (crawlers.rs 114-123): the first resolved link, "" if
\* there is none.
FirstResolvedLink(url, body, sel) ==
    LET links == ResolvedLinks(url, body, sel, 1)
    IN IF links = <<>> THEN <<>> ELSE links[1]

(***************************************************************************)
(* modules/crawlers.rs: TwoStageWeb::find.                                 *)
(***************************************************************************)
\* The fields of a TwoStageWeb configuration that find reads (limit is read
\* nowhere).
TwoStageWeb(url, search_page, user_agent, first_stage_match, second_stage_match) ==
    [url |-> url, search_page |-> search_page, search_get_name |-> <<"q">>,
     categories |-> << <<"1">>, <<"2">> >>, categories_get_name |-> <<"c">>,
     user_agent |-> user_agent,
     first_stage_match |-> first_stage_match,
     second_stage_match |-> second_stage_match]

WebFile(content, link) == [content |-> content, link |-> link]
NoWebFile == [content |-> <<>>, link |-> <<>>]

\* A request as the server sees it.
Get(url, user_agent) ==
    [method |-> "GET", url |-> url, user_agent |-> user_agent,
     referer |-> <<>>, form |-> <<>>, cookies |-> <<>>]

FindOk(web_file, requests) ==
    [ok |-> TRUE, err |-> "", web_file |-> web_file, requests |-> requests]
FindErr(err, requests) ==
    [ok |-> FALSE, err |-> err, web_file |-> NoWebFile, requests |-> requests]

RECURSIVE AppendCategories(_, _, _)
AppendCategories(u, self, n) ==
    IF n > Len(self.categories) THEN u
    ELSE AppendCategories(append_pair(u, self.categories_get_name, self.categories[n]),
                          self, n + 1)

\* The search URL of crawlers.rs 57-62, given that both the parse and the
\* join succeed.
SearchUrl(self, content) ==
    LET joined == UrlJoin(UrlParse(self.url).url, self.search_page).url
    IN AppendCategories(append_pair(joined, self.search_get_name, to_query(content)),
                        self, 1)

\* crawlers.rs 76-87: url_strings, the links collected from the stage-1 page.
Stage1Links(self, content, body) ==
    ResolvedLinks(SearchUrl(self, content), body, self.first_stage_match, 1)

\* crawlers.rs 76-90: the keyword-filtered links of the stage-1 page.
Stage1Filtered(self, content, body) ==
    filter_by_keywords(Stage1Links(self, content, body), to_query(content))

\* The last filtered link as the target.
Stage2TargetLast(filtered) == filtered[Len(filtered)]

\* crawlers.rs 92-96: the target of the stage-2 request.
Stage2Target(filtered) == filtered[1]

\* crawlers.rs 93: whether find stops after stage 1 for want of results.
NothingFound(filtered) == filtered = <<>>

\* A stage 2 that resolves against the URL of the page it fetched.
Stage2OriginIsPage(url, url_string) == UrlParse(url_string).url

\* crawlers.rs 118: the URL that stage 2 resolves an href against is `url`,
\* the search URL of lines 57-62; url_string, the address of the page that
\* stage 2 fetched, is not used.
Stage2Origin(url, url_string) == url

\* find, with the answers web.stage1 and web.stage2 of the environment to
\* the two requests; `requests` are the requests it issued, in order.
find(self, content, web) ==
    LET base == UrlParse(self.url)
    IN IF ~base.ok \/ ~UrlJoin(base.url, self.search_page).ok
       THEN FindErr("url", <<>>)
       ELSE
    LET url == SearchUrl(self, content)
        req1 == Get(UrlString(url), self.user_agent)
    IN IF ~HeaderValueOk(self.user_agent) THEN FindErr("header", <<>>)
       ELSE IF ~ResponseOk(web.stage1) THEN FindErr("fetch", <<req1>>)
       ELSE IF ~SelectorOk(self.first_stage_match) THEN FindErr("selector", <<req1>>)
       ELSE
    LET url_strings == Stage1Filtered(self, content, web.stage1.body)
    IN IF NothingFound(url_strings)
       THEN FindErr("Nothing found in first stage.", <<req1>>)
       ELSE
    LET req2 == Get(Stage2Target(url_strings), self.user_agent)
    IN IF ~ResponseOk(web.stage2) THEN FindErr("fetch", <<req1, req2>>)
       ELSE IF ~SelectorOk(self.second_stage_match)
       THEN FindErr("selector", <<req1, req2>>)
       ELSE
    LET link == FirstResolvedLink(Stage2Origin(url, Stage2Target(url_strings)),
                                  web.stage2.body, self.second_stage_match)
    IN IF link = <<>> THEN FindErr("Search string not found", <<req1, req2>>)
       ELSE FindOk(WebFile(content, link), <<req1, req2>>)

(***************************************************************************)
(* modules/fetchers.rs: QBFetcher::fetch and add_url_blocking.             *)
(***************************************************************************)
QBFetcher(url, add_url, login_url, username, password, save_path) ==
    [url |-> url, add_url |-> add_url, login_url |-> login_url,
     username |-> username, password |-> password, save_path |-> save_path]

WebResponse(content, response, success) ==
    [content |-> content, response |-> response, success |-> success]
NoWebResponse == [content |-> NoWebFile, response |-> <<>>, success |-> FALSE]

\* A request of the client of fetchers.rs 65-68, which keeps cookies: it
\* carries the cookies the client's store holds when it is sent.
Post(url, referer, form, cookies) ==
    [method |-> "POST", url |-> url, user_agent |-> <<"r", "s">>,
     referer |-> referer, form |-> form, cookies |-> cookies]

\* str::trim_end_matches('/')
RECURSIVE trim_end_slashes(_)
trim_end_slashes(s) ==
    IF s # <<>> /\ s[Len(s)] = "/" THEN trim_end_slashes(SubSeq(s, 1, Len(s) - 1))
    ELSE s

\* The success marker of the add endpoint, and the marker of the login answer.
OkDot == <<"O", "k", ".">>
OkLower == <<"o", "k">>

\* fetchers.rs 87: whether the login answer lets the add request go ahead.
LoginAccepted(login_resp) == contains(to_lowercase(login_resp), OkLower)

\* A client that logs in whatever the username.
NeedsLoginAlways(username) == TRUE

\* fetchers.rs 76: if username != ""
NeedsLogin(username) == username # <<>>

\* Client::builder().cookie_store(true): the store when the add request is
\* sent holds what the login answer set, if a login was made.
cookie_store(username, login_cookie) == IF NeedsLogin(username) THEN login_cookie ELSE <<>>

\* add_url_blocking, with the answers web.login and web.add of the
\* environment and the cookie web.login_cookie the login answer sets: [ok,
\* the add endpoint's body, the requests issued].
add_url_blocking(url_in, add_url, login_url, username, password, link, save_path, web) ==
    LET url == trim_end_slashes(url_in)
        login_req == Post(url \o login_url, url,
                          << <<"username", username>>, <<"password", password>> >>, <<>>)
        add_req == Post(url \o add_url, url,
                        << <<"urls", link>>, <<"savepath", save_path>> >>,
                        cookie_store(username, web.login_cookie))
        before == IF NeedsLogin(username) THEN <<login_req>> ELSE <<>>
    IN IF ~HeaderValueOk(url)
       THEN [ok |-> FALSE, err |-> "header", body |-> <<>>, requests |-> <<>>]
       ELSE IF NeedsLogin(username) /\ ~ResponseOk(web.login)
       THEN [ok |-> FALSE, err |-> "login request", body |-> <<>>, requests |-> before]
       ELSE IF NeedsLogin(username) /\ ~LoginAccepted(web.login.body)
       THEN [ok |-> FALSE, err |-> "login failed", body |-> <<>>, requests |-> before]
       ELSE IF ~ResponseOk(web.add)
       THEN [ok |-> FALSE, err |-> "add request", body |-> <<>>,
             requests |-> Append(before, add_req)]
       ELSE [ok |-> TRUE, err |-> "", body |-> web.add.body,
             requests |-> Append(before, add_req)]

\* A comparison that ignores case.
IsSuccessAnyCase(response) == to_lowercase(response) = to_lowercase(OkDot)

\* fetchers.rs 48: the success flag of a submission result.
IsSuccess(response) == response = OkDot

\* QBFetcher::fetch: Err, or Ok(WebResponse) with success = (response == "Ok.").
fetch(self, content, web) ==
    LET r == add_url_blocking(self.url, self.add_url, self.login_url,
                              self.username, self.password, content.link,
                              self.save_path \o content.content.title, web)
    IN IF ~r.ok
       THEN [ok |-> FALSE, err |-> r.err, web_response |-> NoWebResponse,
             requests |-> r.requests]
       ELSE [ok |-> TRUE, err |-> "",
             web_response |-> WebResponse(content, r.body, IsSuccess(r.body)),
             requests |-> r.requests]

(***************************************************************************)
(* The environment of a run: the three stores on disk and the answers of   *)
(* the search site and of the download client.                             *)
(***************************************************************************)
\* The records a content store may hold.
RecordAb == Content(<<>>, <<"A", "b">>, <<"S">>, 1, <<"E">>, 1, 2, <<>>)
RecordCd == Content(<<"x">>, <<"C", "d">>, <<"s">>, 2, <<"e">>, 9, 1, <<"p">>)
StoreRecords == { RecordAb, RecordCd }

RECURSIVE SeqsUpTo(_, _)
SeqsUpTo(S, n) ==
    IF n = 0 THEN { <<>> }
    ELSE LET shorter == SeqsUpTo(S, n - 1)
         IN shorter \cup { Append(q, x) : q \in shorter, x \in S }

\* A store file: unreadable (missing, or not the expected TOML), or a list.
StoreFile(readable, content) == [readable |-> readable, content |-> content]
BrokenFile == StoreFile(FALSE, <<>>)
ContentStores ==
    { StoreFile(TRUE, q) : q \in SeqsUpTo(StoreRecords, MaxRecords) } \cup { BrokenFile }

GoodCrawler ==
    TwoStageWeb(<<"h", ":", "/", "/", "t", "/">>, <<"s">>, <<"u", "a">>, "a.result", "a.magnet")
BadUrlCrawler == [GoodCrawler EXCEPT !.url = <<"t">>]
BadAgentCrawler == [GoodCrawler EXCEPT !.user_agent = <<"u", "\n">>]
BadFirstMatchCrawler == [GoodCrawler EXCEPT !.first_stage_match = "a["]
BadSecondMatchCrawler == [GoodCrawler EXCEPT !.second_stage_match = "a["]
GoodCrawlers == StoreFile(TRUE, <<GoodCrawler, BadUrlCrawler>>)
CrawlerStores ==
    { StoreFile(TRUE, q) :
        q \in { <<>>, <<BadUrlCrawler>>, <<BadAgentCrawler>>,
                <<BadFirstMatchCrawler>>, <<BadSecondMatchCrawler>> } }
      \cup { GoodCrawlers, BrokenFile }

AnonFetcher ==
    QBFetcher(<<"h", ":", "/", "/", "q", "/">>, <<"/", "a">>, <<"/", "l">>, <<>>, <<>>, <<"/", "d", "/">>)
UserFetcher == [AnonFetcher EXCEPT !.username = <<"u">>, !.password = <<"p">>]
BadRefererFetcher == [AnonFetcher EXCEPT !.url = <<"q", "\n">>]
\* A base URL without a trailing slash.
BareUrlFetcher == [UserFetcher EXCEPT !.url = <<"h", ":", "/", "/", "q">>]
AnonFetchers == StoreFile(TRUE, <<AnonFetcher>>)
FetcherStores ==
    { StoreFile(TRUE, q) :
        q \in { <<>>, <<UserFetcher, AnonFetcher>>, <<BadRefererFetcher>> } }
      \cup { AnonFetchers, BrokenFile }

\* The pairs of configuration stores a run starts with: every submission
\* configuration with the working discovery configuration, and every discovery
\* configuration with the anonymous submission configuration.
Deployments ==
    { <<GoodCrawlers, f>> : f \in FetcherStores }
      \cup { <<c, AnonFetchers>> : c \in CrawlerStores }

\* The path under which the search site lists a release of the record.
Slug(content) ==
    to_lowercase(content.title) \o <<"-">>
      \o to_lowercase(content.first_prefix \o ZeroPad(content.first, content.digits)
                        \o content.second_prefix \o ZeroPad(content.second, content.digits))

TransportError == Response(FALSE, 0, <<>>)
UnresolvableHref == Scheme

\* A result page: an anchor without href, one whose href does not resolve,
\* one of another kind, one for another release, then two for the release.
ResultPage(content) ==
    << Element({"a.result"}, FALSE, <<>>),
       Element({"a.result"}, TRUE, UnresolvableHref),
       Element({"a.magnet"}, TRUE, <<"/", "o", "/">> \o Slug(content)),
       Element({"a.result"}, TRUE, <<"/", "t", "/", "x", "y", "z">>),
       Element({"a.result"}, TRUE, <<"/", "t", "/">> \o Slug(content)),
       Element({"a.result"}, TRUE, <<"d", "/">> \o Slug(content)),
       Element({"a.result"}, TRUE, Scheme \o <<"w", "/">> \o Slug(content)) >>
\* A result page without the release.
OtherPage ==
    << Element({"a.result"}, TRUE, <<"/", "t", "/", "x", "y", "z">>),
       Element({"a.result"}, FALSE, <<>>) >>

Stage1Responses(content) ==
    { TransportError,
      Response(TRUE, 404, ResultPage(content)),
      Response(TRUE, 300, ResultPage(content)),
      Response(TRUE, 200, OtherPage),
      Response(TRUE, 200, ResultPage(content)) }

\* A release page: its first magnet anchors have no usable href, the next
\* links the file by a relative reference, the last is a magnet URI.
MagnetPage ==
    << Element({"a.result"}, TRUE, <<"m", ":", "0">>),
       Element({"a.magnet"}, FALSE, <<>>),
       Element({"a.magnet"}, TRUE, UnresolvableHref),
       Element({"a.magnet"}, TRUE, <<"f">>),
       Element({"a.magnet"}, TRUE, <<"m", ":", "2">>) >>
\* A release page without a usable magnet anchor.
NoMagnetPage ==
    << Element({"a.result"}, TRUE, <<"m", ":", "0">>),
       Element({"a.magnet"}, FALSE, <<>>),
       Element({"a.magnet"}, TRUE, UnresolvableHref) >>

Stage2Responses ==
    { Response(TRUE, 500, MagnetPage),
      Response(TRUE, 200, NoMagnetPage),
      Response(TRUE, 200, MagnetPage) }

Fails == <<"F", "a", "i", "l", "s", ".">>
\* What the login answer sets as cookie: nothing, or a session id.
SessionId == <<"S", "I", "D">>
LoginCookies == { <<>>, SessionId }
LoginResponses ==
    { TransportError, Response(TRUE, 403, OkDot), Response(TRUE, 300, OkDot),
      Response(TRUE, 200, Fails), Response(TRUE, 200, OkDot) }
AddResponses ==
    { TransportError, Response(TRUE, 403, OkDot), Response(TRUE, 200, Fails),
      Response(TRUE, 200, OkDot) }

(***************************************************************************)
(* src/main.rs: one run of the spider.                                     *)
(***************************************************************************)
VARIABLES
    pc,            \* where main stands
    exit,          \* how main ended: "running", "Ok", "Err" or "panic"
    crawlers_file, \* the discovery-config store on disk
    fetchers_file, \* the submission-config store on disk
    store,         \* the content store on disk
    crawlers,      \* main's `crawlers`
    contents,      \* main's `contents`
    fetchers,      \* main's `fetchers`
    i,             \* the outer loop's index (from 1)
    predictions,   \* main's `predictions`
    k,             \* the inner loop's position in predictions (from 1)
    web_file,      \* main's `web_file`
    web_response,  \* main's `web_response`
    store0,        \* history: the content store on disk when the run began
    loaded,        \* history: the list as load_contents returned it
    log,           \* history: the calls made for record i, in order
    advances,      \* history: per record, how often it was replaced
    n_writes,      \* history: successful store writes in this run
    n_find,        \* history: calls of find in this run
    n_fetch,       \* history: calls of fetch in this run
    all_ok,        \* history: every find so far returned a reference and every
                   \* fetch so far was answered "Ok."
    run,           \* history: "first" run of the process, or "second"
    first_run,     \* history: `loaded` and `advances` at the end of the first run,
                   \* and the candidate whose store write failed, if one did
    n_edits,       \* history: requests the companion editor has handled
    last_edit,     \* history: the editor's latest write of the content store, as
                   \* long as the editor has not torn the file since
    handlers,      \* the editor's requests in flight: each handler's position,
                   \* its `file`, its response, and the store around its write
    arg,           \* the input of a function applied on its own
    ret            \* what it returned

main_vars ==
    <<pc, exit, crawlers_file, fetchers_file, store, crawlers, contents, fetchers,
      i, predictions, k, web_file, web_response, store0, loaded, log, advances,
      n_writes, n_find, n_fetch, all_ok, run, first_run, n_edits, last_edit, handlers>>
fn_vars == <<arg, ret>>
run_vars == <<run, first_run>>
call_vars == <<n_find, n_fetch, all_ok>>
editor_vars == <<n_edits, last_edit, handlers>>

NoFailure == [i |-> 0, k |-> 0, content |-> <<>>]
NoRun == [loaded |-> <<>>, advances |-> <<>>, failed |-> NoFailure]
NoEdit == [written |-> FALSE, overwritten |-> FALSE, image |-> <<>>]
NoHandlers == <<>>
vars == <<main_vars, fn_vars>>

NoCall == [fn |-> "none"]

Init ==
    /\ pc = "load_crawlers"
    /\ exit = "running"
    /\ \E d \in Deployments :
         /\ crawlers_file = d[1]
         /\ fetchers_file = d[2]
    /\ store \in ContentStores
    /\ store0 = store
    /\ crawlers = <<>>
    /\ contents = <<>>
    /\ fetchers = <<>>
    /\ i = 1
    /\ predictions = <<>>
    /\ k = 1
    /\ web_file = NoWebFile
    /\ web_response = NoWebResponse
    /\ loaded = <<>>
    /\ log = <<>>
    /\ advances = <<>>
    /\ n_writes = 0
    /\ n_find = 0
    /\ n_fetch = 0
    /\ all_ok = TRUE
    /\ run = "first"
    /\ first_run = NoRun
    /\ n_edits = 0
    /\ last_edit = NoEdit
    /\ handlers = NoHandlers
    /\ arg = NoCall
    /\ ret = NoCall

\* The variables of the loop bodies (main.rs 59-86).
locals == <<i, k, predictions, web_file, web_response>>

\* An error that is logged and not returned: the loop goes on.
ReturnErrSwallowed ==
    /\ pc' = "for_i"
    /\ exit' = exit

\* A `?` that returns the error from main.
ReturnErr ==
    /\ pc' = "returned"
    /\ exit' = "Err"

\* An index out of range: the process panics.
Panic ==
    /\ pc' = "returned"
    /\ exit' = "panic"

\* A load that takes a file it cannot read for an empty list.
load_or_default(file) == [ok |-> TRUE, value |-> file.content]

\* serialize.rs load_crawlers / load_fetchers / load_contents: the list of
\* the file, or an error.
load(file) == [ok |-> file.readable, value |-> file.content]

\* main.rs 55: let crawlers = load_crawlers(&cli.crawlers)?;
LoadCrawlers ==
    /\ pc = "load_crawlers"
    /\ \/ /\ load(crawlers_file).ok
          /\ crawlers' = load(crawlers_file).value
          /\ pc' = "load_contents"
          /\ exit' = exit
       \/ /\ ~load(crawlers_file).ok
          /\ ReturnErr
          /\ crawlers' = crawlers
    /\ UNCHANGED <<store0, crawlers_file, fetchers_file, store, contents, fetchers, locals,
                   loaded, log, advances, n_writes, fn_vars, call_vars, run_vars, editor_vars>>

\* main.rs 56: let mut contents = load_contents(&cli.contents)?;
LoadContents ==
    /\ pc = "load_contents"
    /\ \/ /\ load(store).ok
          /\ contents' = load(store).value
          /\ loaded' = load(store).value
          /\ advances' = [n \in 1..Len(load(store).value) |-> 0]
          /\ pc' = "load_fetchers"
          /\ exit' = exit
       \/ /\ ~load(store).ok
          /\ ReturnErr
          /\ UNCHANGED <<contents, loaded, advances>>
    /\ UNCHANGED <<store0, crawlers_file, fetchers_file, store, crawlers, fetchers, locals,
                   log, n_writes, fn_vars, call_vars, run_vars, editor_vars>>

\* main.rs 57: let fetchers = load_fetchers(&cli.fetchers)?;
LoadFetchers ==
    /\ pc = "load_fetchers"
    /\ \/ /\ load(fetchers_file).ok
          /\ fetchers' = load(fetchers_file).value
          /\ pc' = "for_i"
          /\ exit' = exit
       \/ /\ ~load(fetchers_file).ok
          /\ ReturnErr
          /\ fetchers' = fetchers
    /\ UNCHANGED <<store0, crawlers_file, fetchers_file, store, crawlers, contents, locals,
                   loaded, log, advances, n_writes, fn_vars, call_vars, run_vars, editor_vars>>

\* main.rs 59-60 and 88: the head of `for i in 0..contents.len()`: the
\* predictions of the next record, or Ok(()) after the last one.
ForRecord ==
    /\ pc = "for_i"
    /\ \/ /\ i <= Len(contents)
          /\ \E overflow_checks \in BOOLEAN :
               \/ /\ ~(overflow_checks /\ Overflows(contents[i]))
                  /\ predictions' = predict_new_content(contents[i])
                  /\ log' = <<>>
                  /\ pc' = "find"
                  /\ exit' = exit
               \/ /\ overflow_checks /\ Overflows(contents[i])
                  /\ Panic
                  /\ UNCHANGED <<predictions, log>>
       \/ /\ i > Len(contents)
          /\ pc' = "returned"
          /\ exit' = "Ok"
          /\ UNCHANGED <<predictions, log>>
    /\ UNCHANGED <<store0, crawlers_file, fetchers_file, store, crawlers, contents, fetchers,
                   i, k, web_file, web_response, loaded, advances, n_writes, fn_vars, call_vars, run_vars, editor_vars>>

\* An outer loop that steps by two.
NextRecordSkips ==
    /\ pc' = "for_i"
    /\ exit' = exit
    /\ i' = i + 2
    /\ k' = 1
    /\ predictions' = <<>>
    /\ web_file' = NoWebFile
    /\ web_response' = NoWebResponse

\* The end of record i's body: its variables go out of scope, the outer loop
\* steps.
NextRecord ==
    /\ pc' = "for_i"
    /\ exit' = exit
    /\ i' = i + 1
    /\ k' = 1
    /\ predictions' = <<>>
    /\ web_file' = NoWebFile
    /\ web_response' = NoWebResponse

\* `?` in the place of `continue`: the error ends the run.
ContinueReturnsErr ==
    /\ ReturnErr
    /\ UNCHANGED locals

\* An Err arm that tries the same prediction again.
ContinueRetries ==
    /\ pc' = "find"
    /\ exit' = exit
    /\ web_file' = NoWebFile
    /\ web_response' = NoWebResponse
    /\ UNCHANGED <<i, k, predictions>>

\* An Err arm that goes on to the replacement instead of the next prediction.
ContinueFallsThrough ==
    /\ pc' = "save"
    /\ exit' = exit
    /\ UNCHANGED locals

\* `continue` of the inner loop (main.rs 69, 77): the next prediction, or,
\* after the last one, the next record.
Continue ==
    IF k < Len(predictions)
    THEN /\ pc' = "find"
         /\ exit' = exit
         /\ k' = k + 1
         /\ web_file' = NoWebFile
         /\ web_response' = NoWebResponse
         /\ UNCHANGED <<i, predictions>>
    ELSE NextRecord

\* The inner loop going on to the next prediction after a replacement.
BreakMissing == Continue

\* `break` of the inner loop (main.rs 84): on to the next record.
Break == NextRecord

\* The answers the callee consumed: one per request it issued.
Consumed(answers, requests) == SubSeq(answers, 1, Len(requests))

\* An index that takes the last entry of the list.
IndexLast(list) == list[Len(list)]

\* main.rs 65, 73: crawlers[0], fetchers[0]: the first entry of a list that
\* is not empty.
Index0(list) == list[1]

\* An Err arm that logs and falls through with the empty reference.
FindArmFallsThrough(r) == "proceed"

\* main.rs 65-71: the arm of the match on find's result: Ok(f) proceeds with
\* f, Err(e) continues with the next prediction.
FindArm(r) == IF r.ok THEN "proceed" ELSE "continue"

\* main.rs 62-71: crawlers[0].find(new_content.clone())
Find ==
    /\ pc = "find"
    /\ \/ /\ crawlers = <<>>
          /\ Panic
          /\ UNCHANGED <<locals, log, call_vars>>
       \/ /\ crawlers # <<>>
          /\ \E stage1 \in Stage1Responses(predictions[k]), stage2 \in Stage2Responses :
               LET new_content == predictions[k]
                   r == find(Index0(crawlers), new_content,
                             [stage1 |-> stage1, stage2 |-> stage2])
                   call == [op |-> "find", i |-> i, k |-> k, content |-> new_content,
                            self |-> Index0(crawlers),
                            answers |-> Consumed(<<stage1, stage2>>, r.requests),
                            result |-> r]
               IN /\ log' = Append(log, call)
                  /\ n_find' = n_find + 1
                  /\ n_fetch' = n_fetch
                  /\ all_ok' = (all_ok /\ r.ok)
                  /\ \/ /\ FindArm(r) = "proceed"
                        /\ web_file' = r.web_file
                        /\ pc' = "fetch"
                        /\ UNCHANGED <<exit, i, k, predictions, web_response>>
                     \/ /\ FindArm(r) = "continue"
                        /\ Continue
    /\ UNCHANGED <<store0, crawlers_file, fetchers_file, store, crawlers, contents, fetchers,
                   loaded, advances, n_writes, fn_vars, run_vars, editor_vars>>

\* main.rs 73-79: the arm of the match on fetch's result: Ok(r) proceeds to
\* line 80 with r, Err(e) continues with the next prediction.
FetchArm(r) == IF r.ok THEN "proceed" ELSE "continue"

\* main.rs 72-79: fetchers[0].fetch(web_file)
Fetch ==
    /\ pc = "fetch"
    /\ \/ /\ fetchers = <<>>
          /\ Panic
          /\ UNCHANGED <<locals, log, call_vars>>
       \/ /\ fetchers # <<>>
          /\ \E login \in LoginResponses, add \in AddResponses, cookie \in LoginCookies :
               LET r == fetch(Index0(fetchers), web_file,
                              [login |-> login, add |-> add, login_cookie |-> cookie])
                   answers == IF NeedsLogin(Index0(fetchers).username) THEN <<login, add>>
                              ELSE <<add>>
                   call == [op |-> "fetch", i |-> i, k |-> k, content |-> web_file,
                            self |-> Index0(fetchers),
                            answers |-> Consumed(answers, r.requests),
                            result |-> r]
               IN /\ log' = Append(log, call)
                  /\ n_fetch' = n_fetch + 1
                  /\ n_find' = n_find
                  /\ all_ok' = (all_ok /\ r.ok /\ r.web_response.response = OkDot)
                  /\ \/ /\ FetchArm(r) = "proceed"
                        /\ web_response' = r.web_response
                        /\ pc' = "save"
                        /\ UNCHANGED <<exit, i, k, predictions, web_file>>
                     \/ /\ FetchArm(r) = "continue"
                        /\ Continue
    /\ UNCHANGED <<store0, crawlers_file, fetchers_file, store, crawlers, contents, fetchers,
                   loaded, advances, n_writes, fn_vars, run_vars, editor_vars>>

\* A save that reads the file first and keeps the records it holds beyond
\* the end of the list.
save_merges(file, list) ==
    { [ok |-> TRUE,
       file |-> StoreFile(TRUE, list \o SubSeq(file.content, Len(list) + 1, Len(file.content)))] }

\* A save that opens the file to append.
save_appends(file, list) == { [ok |-> TRUE, file |-> StoreFile(TRUE, file.content \o list)] }

\* A save that reports success and leaves the write for later.
save_deferred(file, list) == { [ok |-> TRUE, file |-> file] }

\* serialize.rs save_contents: fs::write of the whole list.  A failure leaves
\* the file as it was (it could not be opened) or torn (it was truncated and
\* not written out).
save_contents(file, list) ==
    { [ok |-> TRUE, file |-> StoreFile(TRUE, list)],
      [ok |-> FALSE, file |-> file],
      [ok |-> FALSE, file |-> BrokenFile] }

\* main.rs 80-84: contents[i] = new_content; save_contents(..)?; break;
Save ==
    /\ pc = "save"
    /\ contents' = [contents EXCEPT ![i] = predictions[k]]
    /\ advances' = [advances EXCEPT ![i] = @ + 1]
    /\ \E w \in save_contents(store, contents') :
         /\ store' = w.file
         /\ log' = Append(log, [op |-> "save", i |-> i, k |-> k, ok |-> w.ok])
         /\ \/ /\ w.ok
               /\ n_writes' = n_writes + 1
               /\ last_edit' = [last_edit EXCEPT !.overwritten = last_edit.written]
               /\ Break
            \/ /\ ~w.ok
               /\ ReturnErr
               /\ UNCHANGED <<locals, n_writes, last_edit>>
    /\ UNCHANGED <<store0, crawlers_file, fetchers_file, crawlers, fetchers, loaded, fn_vars,
                   call_vars, run_vars, n_edits, handlers>>

Next ==
    \/ LoadCrawlers
    \/ LoadContents
    \/ LoadFetchers
    \/ ForRecord
    \/ Find
    \/ Fetch
    \/ Save

Spec == Init /\ [][Next]_vars

\* The content stores that hold the first records of the list RecordAb,
\* RecordCd, RecordAb, ...
RerunStores ==
    { StoreFile(TRUE, [n \in 1..len |-> IF n % 2 = 1 THEN RecordAb ELSE RecordCd]) :
        len \in 0..MaxRecords }

\* A run that is not left standing: main is one thread of blocking calls, and
\* while it has not returned its next step is taken (every call made
\* returns).  The configuration stores are the working ones, an empty one or an
\* unreadable one; the content store is unreadable or one of RerunStores.
FairDeployments ==
    { d \in Deployments :
        /\ d[1] \in {GoodCrawlers, StoreFile(TRUE, <<>>), BrokenFile}
        /\ d[2] \in {AnonFetchers, StoreFile(TRUE, <<>>), BrokenFile} }

InitFair ==
    /\ Init
    /\ <<crawlers_file, fetchers_file>> \in FairDeployments
    /\ store \in RerunStores \cup {BrokenFile}

FairSpec == InitFair /\ [][Next]_vars /\ WF_vars(Next)

(***************************************************************************)
(* Two runs in a row over the same files: the process is started again     *)
(* after it returned Ok, with working configuration stores.                *)
(***************************************************************************)
InitRerun ==
    /\ Init
    /\ crawlers_file = GoodCrawlers
    /\ fetchers_file = AnonFetchers
    /\ store \in RerunStores

\* main is entered again: nothing of the first run is left but the files.
Rerun ==
    /\ pc = "returned"
    /\ exit = "Ok"
    /\ run = "first"
    /\ run' = "second"
    /\ first_run' = [loaded |-> loaded, advances |-> advances, failed |-> NoFailure]
    /\ pc' = "load_crawlers"
    /\ exit' = "running"
    /\ crawlers' = <<>>
    /\ contents' = <<>>
    /\ fetchers' = <<>>
    /\ i' = 1
    /\ k' = 1
    /\ predictions' = <<>>
    /\ web_file' = NoWebFile
    /\ web_response' = NoWebResponse
    /\ store0' = store
    /\ loaded' = <<>>
    /\ log' = <<>>
    /\ advances' = <<>>
    /\ n_writes' = 0
    /\ n_find' = 0
    /\ n_fetch' = 0
    /\ all_ok' = TRUE
    /\ UNCHANGED <<crawlers_file, fetchers_file, store, fn_vars, editor_vars>>

NextRerun ==
    \/ Next
    \/ Rerun

SpecRerun == InitRerun /\ [][NextRerun]_vars

(***************************************************************************)
(* A run that is started again after it stopped on a failed store write.   *)
(***************************************************************************)
\* main is entered again after save_contents(..)? returned the error at
\* main.rs 83: nothing of the first run is left but the files.
RerunAfterSaveError ==
    /\ pc = "returned"
    /\ exit = "Err"
    /\ log # <<>>
    /\ log[Len(log)].op = "save"
    /\ run = "first"
    /\ run' = "second"
    /\ first_run' = [loaded |-> loaded, advances |-> advances,
                     failed |-> [i |-> i, k |-> k, content |-> predictions[k]]]
    /\ pc' = "load_crawlers"
    /\ exit' = "running"
    /\ crawlers' = <<>>
    /\ contents' = <<>>
    /\ fetchers' = <<>>
    /\ i' = 1
    /\ k' = 1
    /\ predictions' = <<>>
    /\ web_file' = NoWebFile
    /\ web_response' = NoWebResponse
    /\ store0' = store
    /\ loaded' = <<>>
    /\ log' = <<>>
    /\ advances' = <<>>
    /\ n_writes' = 0
    /\ n_find' = 0
    /\ n_fetch' = 0
    /\ all_ok' = TRUE
    /\ UNCHANGED <<crawlers_file, fetchers_file, store, fn_vars, editor_vars>>

NextRetry ==
    \/ Next
    \/ RerunAfterSaveError

SpecRetry == InitRerun /\ [][NextRetry]_vars

(***************************************************************************)
(* src/bin/spider_app.rs: the companion editor's requests on the content   *)
(* store, handled while a run of the spider goes on over the same file.    *)
(***************************************************************************)
\* Largest number of requests the editor handles.
MaxEdits == 1

\* The record an editor request carries.
RecordEf == Content(<<>>, <<"E", "f">>, <<"S">>, 1, <<"E">>, 1, 2, <<>>)

\* The requests on /api/contents: POST, and PUT and DELETE with an index
\* (from 0): the first entry, and one past the longest store.
EditIndexes == {0, MaxRecords}
EditRequests ==
    { [op |-> "add", idx |-> 0, payload |-> RecordEf] }
      \cup { [op |-> "update", idx |-> n, payload |-> RecordEf] : n \in EditIndexes }
      \cup { [op |-> "delete", idx |-> n, payload |-> RecordEf] : n \in EditIndexes }

\* read_contents (spider_app.rs 309-318): the list of the file; a file that
\* is not there reads as the empty list, one that is not the expected TOML is an
\* error.
read_contents(file) ==
    IF file.readable THEN { [ok |-> TRUE, value |-> file.content] }
    ELSE { [ok |-> TRUE, value |-> <<>>], [ok |-> FALSE, value |-> <<>>] }

\* Vec::remove(idx), idx from 0.
remove(list, idx) == SubSeq(list, 1, idx) \o SubSeq(list, idx + 2, Len(list))

\* An index check that lets the index one past the end through.
OutOfRangeBeyondEnd(idx, list) == idx > Len(list)

\* spider_app.rs 147, 160: idx >= file.content.len()
OutOfRange(idx, list) == idx >= Len(list)

\* add_content, update_content, delete_content (spider_app.rs 131-166)
\* between the read and the write: the list to write, or not found.
Edited(req, list) ==
    CASE req.op = "add" -> [found |-> TRUE, list |-> Append(list, req.payload)]
      [] req.op = "update" ->
           IF OutOfRange(req.idx, list) THEN [found |-> FALSE, list |-> list]
           ELSE [found |-> TRUE, list |-> [list EXCEPT ![req.idx + 1] = req.payload]]
      [] req.op = "delete" ->
           IF OutOfRange(req.idx, list) THEN [found |-> FALSE, list |-> list]
           ELSE [found |-> TRUE, list |-> remove(list, req.idx)]

\* One request handled by the editor, once the run has loaded the content
\* store: read_contents, the change, write_contents (save_contents of the
\* whole list).
EditContents ==
    /\ n_edits < MaxEdits
    /\ pc \notin {"load_crawlers", "load_contents"}
    /\ n_edits' = n_edits + 1
    /\ \E req \in EditRequests, rd \in read_contents(store) :
         \/ /\ ~rd.ok \/ ~Edited(req, rd.value).found
            /\ UNCHANGED <<store, last_edit>>
         \/ /\ rd.ok /\ Edited(req, rd.value).found
            /\ \E w \in save_contents(store, Edited(req, rd.value).list) :
                 /\ store' = w.file
                 /\ last_edit' =
                      IF w.ok
                      THEN [written |-> TRUE,
                            overwritten |-> FALSE,
                            image |-> Edited(req, rd.value).list]
                      ELSE IF w.file = store THEN last_edit ELSE NoEdit
    /\ UNCHANGED <<pc, exit, crawlers_file, fetchers_file, crawlers, contents, fetchers, locals,
                   store0, loaded, log, advances, n_writes, call_vars, run_vars, fn_vars,
                   handlers>>

NextEditor ==
    \/ Next
    \/ EditContents

\* A run over working configuration stores and a content store of
\* MaxRecords records or one less, with the editor at work.
InitEditor ==
    /\ InitRerun
    /\ Len(store.content) >= MaxRecords - 1

SpecEditor == InitEditor /\ [][NextEditor]_vars

(***************************************************************************)
(* src/bin/spider_app.rs: the editor on its own, with several requests on  *)
(* /api/contents in flight.  The server runs on the multi-threaded runtime *)
(* (#[tokio::main], spider_app.rs 67) and the handlers take no lock, so    *)
(* the read of one request and the write of another come in any order.     *)
(***************************************************************************)
\* Largest number of requests in flight.
MaxHandlers == 2
Handlers == 1..MaxHandlers

\* The record the request of handler h carries.
PayloadOf(h) == [RecordEf EXCEPT !.first = h]

\* The requests on /api/contents: POST, and PUT and DELETE with an index
\* (from 0) up to the length of the longest store.
HandlerRequests(h) ==
    { [op |-> "add", idx |-> 0, payload |-> PayloadOf(h)] }
      \cup { [op |-> "update", idx |-> n, payload |-> PayloadOf(h)] : n \in 0..MaxRecords }
      \cup { [op |-> "delete", idx |-> n, payload |-> PayloadOf(h)] : n \in 0..MaxRecords }

\* A handler that has not run yet.  `got`, `read`, `wrote`, `before` and
\* `after` are history: whether read_contents returned a list and which,
\* whether write_contents was called, and the store file right before and
\* right after that call.
Received(req) ==
    [pc |-> "read", req |-> req, got |-> FALSE, read |-> <<>>, file |-> <<>>,
     resp |-> "none", wrote |-> FALSE, before |-> BrokenFile, after |-> BrokenFile]

\* add_content 135-136, update_content 146-150, delete_content 159-163:
\* read_contents(..)?, the index check and the change of `file`.
HandleRead(h) ==
    /\ handlers[h].pc = "read"
    /\ \E rd \in read_contents(store) :
         LET e == Edited(handlers[h].req, rd.value)
         IN handlers' =
              [handlers EXCEPT ![h] =
                 IF ~rd.ok THEN [@ EXCEPT !.pc = "done", !.resp = "internal"]
                 ELSE IF ~e.found
                      THEN [@ EXCEPT !.pc = "done", !.resp = "not_found", !.got = TRUE,
                                     !.read = rd.value, !.file = rd.value]
                      ELSE [@ EXCEPT !.pc = "write", !.got = TRUE, !.read = rd.value,
                                     !.file = e.list]]
    /\ UNCHANGED store

\* add_content 137-138, update_content 151-152, delete_content 164-165:
\* write_contents(.., &file)?; Ok(Json(file.content))
HandleWrite(h) ==
    /\ handlers[h].pc = "write"
    /\ \E w \in save_contents(store, handlers[h].file) :
         /\ store' = w.file
         /\ handlers' =
              [handlers EXCEPT ![h] =
                 [@ EXCEPT !.pc = "done",
                           !.resp = IF w.ok THEN "ok" ELSE "internal",
                           !.wrote = TRUE,
                           !.before = store,
                           !.after = w.file]]

app_untouched ==
    <<pc, exit, crawlers_file, fetchers_file, crawlers, contents, fetchers, locals,
      store0, loaded, log, advances, n_writes, call_vars, run_vars, fn_vars,
      n_edits, last_edit>>

HandlerReads ==
    /\ \E h \in Handlers : HandleRead(h)
    /\ UNCHANGED app_untouched

HandlerWrites ==
    /\ \E h \in Handlers : HandleWrite(h)
    /\ UNCHANGED app_untouched

NextApp ==
    \/ HandlerReads
    \/ HandlerWrites

\* The editor over a content store, with one request received by each
\* handler and none of them begun; no run of the spider goes on.
InitApp ==
    /\ pc = "app"
    /\ exit = "running"
    /\ crawlers_file = BrokenFile
    /\ fetchers_file = BrokenFile
    /\ store \in ContentStores
    /\ store0 = store
    /\ crawlers = <<>>
    /\ contents = <<>>
    /\ fetchers = <<>>
    /\ i = 1
    /\ predictions = <<>>
    /\ k = 1
    /\ web_file = NoWebFile
    /\ web_response = NoWebResponse
    /\ loaded = <<>>
    /\ log = <<>>
    /\ advances = <<>>
    /\ n_writes = 0
    /\ n_find = 0
    /\ n_fetch = 0
    /\ all_ok = TRUE
    /\ run = "first"
    /\ first_run = NoRun
    /\ n_edits = 0
    /\ last_edit = NoEdit
    /\ \E reqs \in [Handlers -> UNION { HandlerRequests(h) : h \in Handlers }] :
         /\ \A h \in Handlers : reqs[h] \in HandlerRequests(h)
         /\ handlers = [h \in Handlers |-> Received(reqs[h])]
    /\ arg = NoCall
    /\ ret = NoCall

SpecApp == InitApp /\ [][NextApp]_vars

(***************************************************************************)
(* The functions of modules/content.rs and modules/crawlers.rs applied on  *)
(* their own: the initial state draws the input, the action applies the    *)
(* function to it.                                                         *)
(***************************************************************************)
\* Largest number of items handed to the keyword filter.
MaxItems == 3

CounterInputs == 0..MaxCounter \cup {5, 9, 10, 99, 100}
ContentInputs ==
    { Content(prefix, title, <<"S">>, first, <<"E">>, second, digits, postfix) :
        prefix \in { <<>>, <<"x">> },
        title \in { <<"S", "h", "o", "w">>, <<"A", "b">> },
        first \in CounterInputs, second \in CounterInputs,
        digits \in 0..MaxDigits,
        postfix \in { <<>>, <<"p">> } }

ItemInputs ==
    { <<"a", "b", "c", "-", "f", "o", "o", "-", "b", "a", "r">>,
      <<"A", "B", "C", "-", "F", "O", "O", "-", "B", "A", "R">>,
      <<"x", "y", "z">>,
      <<"b", "a", "r", "-", "f", "o", "o">>,
      <<"f", "o", "o">> }
KeywordInputs ==
    { <<"f", "o", "o", " ", "b", "a", "r">>,
      <<"F", "O", "O", " ", "\t", "b", "a", "r">>,
      <<" ", "x", "y", "z", " ">>,
      <<"F", "o", "o">>,
      <<"a", "b", "c", " ", "x", "y", "z">>,
      <<>> }

\* What the add endpoint may answer: the success marker, its near misses and
\* other texts, under a 2xx status, and failures of status and transport.
AddBodyInputs ==
    { OkDot, OkLower, <<"O", "k">>, <<"O", "K", ".">>, <<"O", "k", ".", " ">>,
      <<" ", "O", "k", ".">>, Fails, <<>> }
AddAnswerInputs ==
    { Response(TRUE, status, body) : status \in {200, 204}, body \in AddBodyInputs }
      \cup { TransportError, Response(TRUE, 403, OkDot), Response(TRUE, 500, Fails),
             Response(TRUE, 300, OkDot), Response(TRUE, 304, Fails) }
\* What the login endpoint may answer.
LoginAnswerInputs ==
    { Response(TRUE, 200, body) :
        body \in { OkDot, OkLower, <<"O", "K">>, <<"t", "O", "k", "e", "n">>, Fails, <<>> } }
      \cup { TransportError, Response(TRUE, 403, OkDot), Response(TRUE, 300, OkDot) }
\* Largest number of elements of a stage-1 page handed to the link collection.
MaxElements == 3

\* The elements of a stage-1 page: a result anchor without href, one whose
\* href does not resolve, an anchor of another kind, and result anchors with
\* a path-absolute, a relative and an absolute href.
ElementInputs ==
    { Element({"a.result"}, FALSE, <<>>),
      Element({"a.result"}, TRUE, UnresolvableHref),
      Element({"a.magnet"}, TRUE, <<"/", "o">>),
      Element({"a.result"}, TRUE, <<"/", "t", "/", "x">>),
      Element({"a.result"}, TRUE, <<"d">>),
      Element({"a.result"}, TRUE, Scheme \o <<"w", "/", "z">>) }

\* Counters at and next to the ends of the u32 range, and the records that
\* hold them.
BoundaryCounters == {0, U32Max - 1, U32Max}
BoundaryInputs ==
    { Content(<<>>, <<"A", "b">>, <<"S">>, first, <<"E">>, second, 2, <<>>) :
        first \in BoundaryCounters, second \in BoundaryCounters }

FetcherInputs == { AnonFetcher, UserFetcher, BadRefererFetcher, BareUrlFetcher }
WebFileInputs == { WebFile(c, <<"m", ":", "2">>) : c \in StoreRecords }

FnInputs ==
    { [fn |-> "predict_new_content", self |-> c] : c \in ContentInputs }
      \cup { [fn |-> "to_query", self |-> c] : c \in ContentInputs }
      \cup { [fn |-> "filter_by_keywords", items |-> q, keywords |-> w] :
               q \in SeqsUpTo(ItemInputs, MaxItems), w \in KeywordInputs }
      \cup { [fn |-> "fetch", self |-> f, content |-> c,
              web |-> [login |-> l, add |-> a, login_cookie |-> s]] :
               f \in FetcherInputs, c \in WebFileInputs, l \in LoginAnswerInputs,
               a \in AddAnswerInputs, s \in LoginCookies }
      \cup { [fn |-> "predict_boundary", self |-> c] : c \in BoundaryInputs }
      \cup { [fn |-> "stage1_links", self |-> GoodCrawler, content |-> RecordAb, body |-> b] :
               b \in SeqsUpTo(ElementInputs, MaxElements) }

InitFn ==
    /\ pc = "fn"
    /\ exit = "running"
    /\ crawlers_file = BrokenFile
    /\ fetchers_file = BrokenFile
    /\ store = BrokenFile
    /\ store0 = BrokenFile
    /\ crawlers = <<>>
    /\ contents = <<>>
    /\ fetchers = <<>>
    /\ i = 1
    /\ predictions = <<>>
    /\ k = 1
    /\ web_file = NoWebFile
    /\ web_response = NoWebResponse
    /\ loaded = <<>>
    /\ log = <<>>
    /\ advances = <<>>
    /\ n_writes = 0
    /\ n_find = 0
    /\ n_fetch = 0
    /\ all_ok = TRUE
    /\ run = "first"
    /\ first_run = NoRun
    /\ n_edits = 0
    /\ last_edit = NoEdit
    /\ handlers = NoHandlers
    /\ arg \in FnInputs
    /\ ret = NoCall

Returned(fn, value) == [fn |-> fn, value |-> value]

ApplyPredict ==
    /\ arg.fn = "predict_new_content"
    /\ ret = NoCall
    /\ ret' = Returned(arg.fn, predict_new_content(arg.self))
    /\ UNCHANGED <<main_vars, arg>>

ApplyToQuery ==
    /\ arg.fn = "to_query"
    /\ ret = NoCall
    /\ ret' = Returned(arg.fn, to_query(arg.self))
    /\ UNCHANGED <<main_vars, arg>>

ApplyFilter ==
    /\ arg.fn = "filter_by_keywords"
    /\ ret = NoCall
    /\ ret' = Returned(arg.fn, filter_by_keywords(arg.items, arg.keywords))
    /\ UNCHANGED <<main_vars, arg>>

ApplyFetch ==
    /\ arg.fn = "fetch"
    /\ ret = NoCall
    /\ ret' = Returned(arg.fn, fetch(arg.self, arg.content, arg.web))
    /\ UNCHANGED <<main_vars, arg>>

\* The predictor on a record at the ends of the u32 range, in a build with
\* overflow checks or in one without: it panics, or returns its candidates.
ApplyPredictBoundary ==
    /\ arg.fn = "predict_boundary"
    /\ ret = NoCall
    /\ \E overflow_checks \in BOOLEAN :
         ret' = Returned(arg.fn,
                         IF overflow_checks /\ Overflows(arg.self)
                         THEN [panicked |-> TRUE, candidates |-> <<>>]
                         ELSE [panicked |-> FALSE,
                               candidates |-> predict_new_content(arg.self)])
    /\ UNCHANGED <<main_vars, arg>>

\* crawlers.rs 76-87 on its own: the link collection of stage 1.
ApplyStage1Links ==
    /\ arg.fn = "stage1_links"
    /\ ret = NoCall
    /\ ret' = Returned(arg.fn, Stage1Links(arg.self, arg.content, arg.body))
    /\ UNCHANGED <<main_vars, arg>>

NextFn ==
    \/ ApplyPredict
    \/ ApplyToQuery
    \/ ApplyFilter
    \/ ApplyFetch
    \/ ApplyStage1Links
    \/ ApplyPredictBoundary

SpecFn == InitFn /\ [][NextFn]_vars

(***************************************************************************)
(* Properties of the predictor, the query formatter and the keyword        *)
(* filter, under SpecFn.                                                   *)
(***************************************************************************)
OtherFields == {"prefix", "title", "first_prefix", "second_prefix", "digits", "postfix"}

\* C7: for every Content Record C the predictor returns exactly two
\* candidates, in this order: C with second = C.second + 1 and first
\* unchanged, then C with first = C.first + 1 and second = 1; every other
\* field of both candidates equals that of C.
C7_PredictorCandidates ==
    ret.fn = "predict_new_content" =>
        LET C == arg.self
            out == ret.value
        IN /\ DOMAIN out = 1..2
           /\ out[1].second = C.second + 1
           /\ out[1].first = C.first
           /\ out[2].first = C.first + 1
           /\ out[2].second = 1
           /\ \A n \in 1..2 :
                /\ DOMAIN out[n] = DOMAIN C
                /\ \A f \in OtherFields : out[n][f] = C[f]

\* The predictor was applied to a record with first = 1, second = 5 and
\* returned [{first: 1, second: 6}, {first: 2, second: 1}].
C7_Witness ==
    /\ ret.fn = "predict_new_content"
    /\ arg.self.first = 1 /\ arg.self.second = 5
    /\ ret.value[1].first = 1 /\ ret.value[1].second = 6
    /\ ret.value[2].first = 2 /\ ret.value[2].second = 1

\* C25: the predictor never fails: it returns two candidates for every
\* Content Record whose counters are non-negative 32-bit integers, one whose
\* first or second is the largest such value included, and the candidates'
\* counters are the mathematical successors, without wrap-around to 0.
C25_PredictorTotal ==
    ret.fn = "predict_boundary" =>
        LET C == arg.self
            out == ret.value.candidates
        IN /\ ~ret.value.panicked
           /\ Len(out) = 2
           /\ out[1].second = C.second + 1
           /\ out[1].first = C.first
           /\ out[2].first = C.first + 1
           /\ out[2].second = 1

\* Whether text p is n written in decimal, zero-padded on the left to width
\* `width` and not cut.
IsPadded(p, n, width) ==
    LET d == Decimal(n)
        zeros == Len(p) - Len(d)
    IN /\ Len(p) = (IF Len(d) >= width THEN Len(d) ELSE width)
       /\ \A m \in 1..zeros : p[m] = "0"
       /\ SubSeq(p, zeros + 1, Len(p)) = d

\* Whether text q is: prefix, title, a space, first_prefix, first padded, a
\* space, second_prefix, second padded, postfix.
IsSpacedQuery(q, C) ==
    \E a \in 0..Len(q), b \in 0..Len(q) :
        LET head == C.prefix \o C.title \o <<" ">> \o C.first_prefix
            mid == <<" ">> \o C.second_prefix
        IN /\ Len(q) = Len(head) + a + Len(mid) + b + Len(C.postfix)
           /\ SubSeq(q, 1, Len(head)) = head
           /\ IsPadded(SubSeq(q, Len(head) + 1, Len(head) + a), C.first, C.digits)
           /\ SubSeq(q, Len(head) + a + 1, Len(head) + a + Len(mid)) = mid
           /\ IsPadded(SubSeq(q, Len(head) + a + Len(mid) + 1,
                              Len(head) + a + Len(mid) + b), C.second, C.digits)
           /\ SubSeq(q, Len(head) + a + Len(mid) + b + 1, Len(q)) = C.postfix

ShowS01E09 == Content(<<>>, <<"S", "h", "o", "w">>, <<"S">>, 1, <<"E">>, 9, 2, <<>>)

\* C8: for every Content Record the query string is prefix, title, a space,
\* first_prefix, first zero-padded to width digits, a space, second_prefix,
\* second zero-padded to width digits, postfix; title "Show", first_prefix
\* "S", first 1, second_prefix "E", second 9, digits 2 and empty prefix and
\* postfix render "Show S01 E09".
C8_QueryHasSpaceBeforeSecond ==
    ret.fn = "to_query" =>
        /\ IsSpacedQuery(ret.value, arg.self)
        /\ arg.self = ShowS01E09 =>
             ret.value = <<"S", "h", "o", "w", " ", "S", "0", "1", " ", "E", "0", "9">>

\* C30: for every Content Record the string logged for an attempt, the
\* record's Display rendering, is identical to the query string to_query
\* makes of it.
C30_DisplayIsQuery ==
    ret.fn = "to_query" => ret.value = Display(arg.self)

\* The positions of the items that contain every whitespace-separated word
\* of the keywords, the words lower-cased and the item taken as it is.
KeptPositions(items, keywords) ==
    { n \in 1..Len(items) :
        \A w \in 1..Len(split_whitespace(keywords)) :
            contains(items[n], to_lowercase(split_whitespace(keywords)[w])) }

\* C9: the keyword filter returns, in the original order, exactly those
\* items that contain every whitespace-separated word of the query after
\* lower-casing the words only; for ["abc-foo-bar", "ABC-FOO-BAR", "xyz"] and
\* "foo bar" the result is ["abc-foo-bar"].
C9_KeywordFilter ==
    ret.fn = "filter_by_keywords" =>
        LET kept == KeptPositions(arg.items, arg.keywords)
            out == ret.value
            \* the j-th kept position, counted from the front
            Pos(j) == CHOOSE n \in kept : Cardinality({m \in kept : m <= n}) = j
        IN /\ Len(out) = Cardinality(kept)
           /\ \A j \in 1..Len(out) : out[j] = arg.items[Pos(j)]
           /\ ( /\ arg.items = << <<"a", "b", "c", "-", "f", "o", "o", "-", "b", "a", "r">>,
                                  <<"A", "B", "C", "-", "F", "O", "O", "-", "B", "A", "R">>,
                                  <<"x", "y", "z">> >>
                /\ arg.keywords = <<"f", "o", "o", " ", "b", "a", "r">> )
              => out = << <<"a", "b", "c", "-", "f", "o", "o", "-", "b", "a", "r">> >>

\* The filter was applied to ["abc-foo-bar", "ABC-FOO-BAR", "xyz"] and
\* "foo bar": it kept the first item and dropped the upper-case one.
C9_Witness ==
    /\ ret.fn = "filter_by_keywords"
    /\ arg.items = << <<"a", "b", "c", "-", "f", "o", "o", "-", "b", "a", "r">>,
                      <<"A", "B", "C", "-", "F", "O", "O", "-", "B", "A", "R">>,
                      <<"x", "y", "z">> >>
    /\ arg.keywords = <<"f", "o", "o", " ", "b", "a", "r">>
    /\ Len(ret.value) = 1

(***************************************************************************)
(* Properties of a run, under Spec.  The log holds the calls made for one  *)
(* record, each with the record's index.                                   *)
(***************************************************************************)
\* An answer with a 2xx status.
Is2xx(r) == r.transport_ok /\ r.status \in 200..299

\* A call that returned an error.
Errored(e) == e.op \in {"find", "fetch"} /\ ~e.result.ok
\* A submission that returned a result whose success flag is false.
Rejected(e) == e.op = "fetch" /\ e.result.ok /\ ~e.result.web_response.success
\* A failed attempt: a discovery failure or a submission failure.
AttemptFailed(e) == Errored(e) \/ Rejected(e)

Last(q) == q[Len(q)]
SaveFailed == log # <<>> /\ Last(log).op = "save" /\ ~Last(log).ok

RECURSIVE SumSeq(_)
SumSeq(q) == IF q = <<>> THEN 0 ELSE q[1] + SumSeq(Tail(q))

NextEpisodeOf(C) == [C EXCEPT !.second = C.second + 1]
NextSeasonOf(C) == [C EXCEPT !.first = C.first + 1, !.second = 1]

\* C1: when the submission strategy returns a result whose success flag is
\* false, the attempt is a failure: main does not go on to replace the
\* record, the record is not replaced by the candidate, the store is not
\* written for it, and the next candidate, if any, is tried.
C1_RejectedSubmissionIsFailure ==
    \A n \in 1..Len(log) :
        Rejected(log[n]) =>
            /\ (n = Len(log)) => pc # "save"
            /\ contents[log[n].i] # log[n].content.content
            /\ \A m \in (n + 1)..Len(log) : ~(log[m].op = "save" /\ log[m].k = log[n].k)
            /\ (log[n].k = 1 /\ n < Len(log)) =>
                   (log[n + 1].op = "find" /\ log[n + 1].k = 2)

\* C2: for every record the next-episode candidate is tried first and the
\* next-season candidate only if the next-episode attempt failed; once a
\* candidate succeeded nothing more is attempted for the record, and a
\* record is replaced at most once per run.
C2_EpisodeBeforeSeason ==
    /\ \A n \in 1..Len(log) :
         LET e == log[n]
             C == loaded[e.i]
         IN /\ e.k \in 1..2
            /\ (n = 1) => (e.op = "find" /\ e.k = 1)
            /\ (e.op = "find" /\ e.k = 1) => (n = 1 /\ e.content = NextEpisodeOf(C))
            /\ (e.op = "find" /\ e.k = 2) =>
                   /\ e.content = NextSeasonOf(C)
                   /\ n > 1
                   /\ log[n - 1].k = 1
                   /\ AttemptFailed(log[n - 1])
            /\ (e.op = "save") => n = Len(log)
            /\ (e.op = "save" /\ e.ok) => pc \in {"for_i", "returned"}
    /\ \A j \in 1..Len(advances) : advances[j] <= 1

\* The next-season candidate of a record was tried after its next-episode
\* attempt failed, it succeeded, and the record was replaced once.
C2_Witness ==
    /\ Len(log) >= 3
    /\ log[1].op = "find" /\ log[1].k = 1 /\ Errored(log[1])
    /\ log[2].op = "find" /\ log[2].k = 2
    /\ Last(log).op = "save" /\ Last(log).ok
    /\ advances[Last(log).i] = 1
    /\ contents[Last(log).i] = NextSeasonOf(loaded[Last(log).i])

\* C3: every replacement of a record is written to the store, as the whole
\* list, before anything else is requested: wherever main stands in the
\* loop, and when it returns Ok, the store on disk equals the list in memory
\* and there are as many store writes as replacements.
C3_WriteThrough ==
    (pc \in {"for_i", "find", "fetch", "save"} \/ (pc = "returned" /\ exit = "Ok")) =>
        /\ store = StoreFile(TRUE, contents)
        /\ n_writes = SumSeq(advances)

\* A request for the second record is under way with the replacement of the
\* first on disk.
C3_Witness ==
    /\ pc = "fetch"
    /\ i = 2
    /\ log # <<>>
    /\ contents[1] # loaded[1]
    /\ store.readable /\ store.content[1] = contents[1]
    /\ n_writes = 1

\* C4: if both candidates of a record fail (in discovery or in submission),
\* the record keeps its value in memory, the store is not written for it, and
\* main moves on to the next record.
C4_BothFailedKeepsRecord ==
    ( /\ \E n \in 1..Len(log) : log[n].k = 1 /\ AttemptFailed(log[n])
      /\ \E n \in 1..Len(log) : log[n].k = 2 /\ AttemptFailed(log[n]) ) =>
        LET j == log[1].i
        IN /\ contents[j] = loaded[j]
           /\ advances[j] = 0
           /\ \A n \in 1..Len(log) : log[n].op # "save"
           /\ store = StoreFile(TRUE, contents)
           /\ pc \in {"for_i", "find", "returned"}
           /\ i = j + 1

\* A store could not be loaded.
LoadFailed == ~crawlers_file.readable \/ ~store0.readable \/ ~fetchers_file.readable

\* C5: a failure of discovery or of submission never ends the run: main
\* returns an error only for a store it could not load or write and panics
\* only on an empty strategy list, a failed attempt is followed by the next
\* step of the loop, a replaced record stays replaced in memory and on disk,
\* and main returns Ok after the last record.
C5_FailuresAreNotFatal ==
    /\ exit = "Err" => (LoadFailed \/ SaveFailed)
    /\ exit = "panic" => (crawlers = <<>> \/ fetchers = <<>>)
    /\ (log # <<>> /\ AttemptFailed(Last(log))) =>
           /\ exit \in {"running", "Ok"}
           /\ exit = "running" => pc \in {"find", "for_i", "save"}
    /\ pc = "returned" <=> exit # "running"
    /\ exit = "Ok" => i = Len(contents) + 1
    /\ \A j \in 1..Len(contents) :
         advances[j] > 0 =>
             /\ contents[j] \in {NextEpisodeOf(loaded[j]), NextSeasonOf(loaded[j])}
             /\ (exit # "Err") => (store.readable /\ store.content[j] = contents[j])

\* The run returned Ok although every attempt for its second record failed,
\* and its first record is still replaced.
C5_Witness ==
    /\ pc = "returned" /\ exit = "Ok"
    /\ Len(contents) = 2
    /\ advances = <<1, 0>>
    /\ contents[1] # loaded[1]
    /\ store.content = contents
    /\ log # <<>> /\ Errored(Last(log)) /\ Last(log).i = 2 /\ Last(log).k = 2

\* C6: if one of the three stores cannot be loaded, the run returns an error
\* before any record is processed: no discovery call, no submission call, no
\* store write.
C6_LoadFailureAborts ==
    LoadFailed =>
        /\ pc \in {"load_crawlers", "load_contents", "load_fetchers", "returned"}
        /\ pc = "returned" => exit = "Err"
        /\ log = <<>>
        /\ i = 1
        /\ n_writes = 0
        /\ store = store0

\* The submission-config store could not be loaded after the other two were,
\* with records to process: the run returned an error.
C6_Witness ==
    /\ ~fetchers_file.readable
    /\ pc = "returned" /\ exit = "Err"
    /\ crawlers # <<>>
    /\ contents # <<>>
    /\ log = <<>>

\* C10: find issues the stage-2 GET only if the stage-1 GET succeeded (2xx)
\* and the keyword-filtered link list is not empty, and to the first link of
\* that list; if stage 1 fails in transport or status, or the filtered list is
\* empty, find returns an error after exactly one request.
C10_Stage2AfterStage1 ==
    \A n \in 1..Len(log) :
        log[n].op = "find" =>
            LET e == log[n]
                self == crawlers[1]
                reqs == e.result.requests
                filtered ==
                    filter_by_keywords(
                        ResolvedLinks(SearchUrl(self, e.content), e.answers[1].body,
                                      self.first_stage_match, 1),
                        to_query(e.content))
            IN /\ Len(reqs) <= 2
               /\ \A m \in 1..Len(reqs) : reqs[m].method = "GET"
               /\ Len(reqs) = 2 =>
                      /\ Is2xx(e.answers[1])
                      /\ filtered # <<>>
                      /\ reqs[2].url = filtered[1]
               /\ (Len(reqs) >= 1 /\ (~Is2xx(e.answers[1]) \/ filtered = <<>>)) =>
                      (~e.result.ok /\ Len(reqs) = 1)

\* find issued its stage-2 GET to the first of several filtered links.
C10_Witness ==
    /\ log # <<>>
    /\ Last(log).op = "find"
    /\ Len(Last(log).result.requests) = 2
    /\ Len(Stage1Filtered(crawlers[1], Last(log).content, Last(log).answers[1].body)) > 1
    /\ Last(log).result.requests[2].url =
         Stage1Filtered(crawlers[1], Last(log).content, Last(log).answers[1].body)[1]

\* The positions of the elements of body that match sel and carry an href
\* that resolves against url.
UsablePositions(url, body, sel) ==
    { n \in 1..Len(body) :
        sel \in body[n].matches /\ body[n].has_href /\ UrlJoin(url, body[n].href).ok }

Min(S) == CHOOSE n \in S : \A m \in S : n <= m

\* C11: in stage 2 of find the result link is the resolution of the first
\* element, in document order, that matches the stage-2 selector and has a
\* resolvable href, whatever matches after it; if no matching element has a
\* resolvable href find fails; on success the returned reference pairs that
\* link with exactly the record passed to find.
C11_Stage2FirstResolvable ==
    \A n \in 1..Len(log) :
        log[n].op = "find" =>
            LET e == log[n]
                self == crawlers[1]
                url == SearchUrl(self, e.content)
                usable == UsablePositions(url, e.answers[2].body, self.second_stage_match)
            IN /\ e.result.ok =>
                      (Len(e.result.requests) = 2 /\ ResponseOk(e.answers[2]))
               /\ ( /\ Len(e.result.requests) = 2
                    /\ ResponseOk(e.answers[2])
                    /\ SelectorOk(self.second_stage_match) ) =>
                      /\ usable = {} =>
                             (~e.result.ok /\ e.result.err = "Search string not found")
                      /\ usable # {} =>
                             /\ e.result.ok
                             /\ e.result.web_file.link =
                                  UrlString(UrlJoin(url, e.answers[2].body[Min(usable)].href).url)
                             /\ e.result.web_file.content = e.content

\* find returned the file link of a release page whose later anchor, a
\* magnet URI, matches the selector and resolves as well.
C11_Witness ==
    /\ log # <<>>
    /\ Last(log).op = "find"
    /\ Last(log).result.ok
    /\ Last(log).answers[2].body = MagnetPage
    /\ Cardinality(UsablePositions(SearchUrl(crawlers[1], Last(log).content), MagnetPage,
                                   crawlers[1].second_stage_match)) > 1
    /\ Last(log).result.web_file.link = <<"h", ":", "/", "/", "t", "/", "f">>
    /\ Last(log).result.web_file.content = predictions[Last(log).k]

(***************************************************************************)
(* Properties of a submission, under SpecFn: fetch applied to a fetcher, a *)
(* reference and the answers of the download client.                       *)
(***************************************************************************)
\* C24: in stage 1 of find the collected link list holds, in document order,
\* exactly the resolutions of the selector-matching elements that have an
\* href which resolves; an element without href or with an href that does not
\* resolve contributes nothing and does not make the collection fail: for
\* [<a href="d">, <a> without href, <a href="/t/x">] on the search URL
\* "h://t/s?.." the list is ["h://t/d", "h://t/t/x"].
C24_Stage1CollectsResolvable ==
    ret.fn = "stage1_links" =>
        LET self == arg.self
            url == SearchUrl(self, arg.content)
            body == arg.body
            out == ret.value
            usable == { n \in 1..Len(body) :
                          /\ self.first_stage_match \in body[n].matches
                          /\ body[n].has_href
                          /\ body[n].href # UnresolvableHref }
            \* the j-th usable position, counted from the front
            Pos(j) == CHOOSE n \in usable : Cardinality({m \in usable : m <= n}) = j
        IN /\ Len(out) = Cardinality(usable)
           /\ \A j \in 1..Len(out) :
                out[j] = UrlString(UrlJoin(url, body[Pos(j)].href).url)
           /\ body = << Element({"a.result"}, TRUE, <<"d">>),
                        Element({"a.result"}, FALSE, <<>>),
                        Element({"a.result"}, TRUE, <<"/", "t", "/", "x">>) >>
                => out = << <<"h", ":", "/", "/", "t", "/", "d">>,
                            <<"h", ":", "/", "/", "t", "/", "t", "/", "x">> >>

\* The links of a page of three matching anchors were collected: the first
\* has no href, the second an href that does not resolve, and the list holds
\* the resolution of the third alone.
C24_Witness ==
    /\ ret.fn = "stage1_links"
    /\ Len(arg.body) = 3
    /\ ~arg.body[1].has_href
    /\ arg.body[2].has_href /\ arg.body[2].href = UnresolvableHref
    /\ \A n \in 1..3 : "a.result" \in arg.body[n].matches
    /\ ret.value = << <<"h", ":", "/", "/", "t", "/", "d">> >>

\* The request that posts the link.
IsAddRequest(q) == q.method = "POST" /\ q.form[1][1] = "urls"
\* The request that posts the credentials.
IsLoginRequest(q) == q.method = "POST" /\ q.form[1][1] = "username"
\* The add request was sent.
AddSent ==
    /\ ret.value.requests # <<>>
    /\ IsAddRequest(Last(ret.value.requests))
\* The add request was sent and answered with a 2xx status.
AddAnswered == AddSent /\ Is2xx(arg.web.add)

\* C12: fetch returns a result with success = true if and only if the add
\* endpoint's response body is exactly "Ok."; for any other body of a 2xx
\* response ("ok", "Ok", "OK." among them) it returns a result, not an error,
\* with success = false and the body as it came.
C12_SuccessIffOkDot ==
    ret.fn = "fetch" =>
        LET r == ret.value
        IN /\ (r.ok /\ r.web_response.success) =>
                  (AddSent /\ arg.web.add.transport_ok /\ arg.web.add.body = <<"O", "k", ".">>)
           /\ (AddAnswered /\ arg.web.add.body = <<"O", "k", ".">>) =>
                  (r.ok /\ r.web_response.success)
           /\ (AddAnswered /\ arg.web.add.body # <<"O", "k", ".">>) =>
                  (r.ok /\ ~r.web_response.success)
           /\ AddAnswered => r.ok
           /\ r.ok =>
                  /\ r.web_response.response = arg.web.add.body
                  /\ r.web_response.content = arg.content

\* The add endpoint answered 200 "OK.": fetch returned a result with success
\* = false that holds "OK.".
C12_Witness ==
    /\ ret.fn = "fetch"
    /\ AddAnswered
    /\ arg.web.add.body = <<"O", "K", ".">>
    /\ ret.value.ok
    /\ ~ret.value.web_response.success
    /\ ret.value.web_response.response = <<"O", "K", ".">>

\* C21: when no username is configured (the empty string) fetch sends no
\* login request: the only request issued is the add POST, without a cookie
\* of a login, and the outcome of fetch depends only on that request: it is
\* the same whatever the login endpoint would have answered, an error when
\* the add request fails in transport and otherwise, for a 2xx answer, a
\* result that holds the add endpoint's body.
C21_AnonymousSkipsLogin ==
    (ret.fn = "fetch" /\ arg.self.username = <<>>) =>
        LET r == ret.value
            reqs == r.requests
        IN /\ \A n \in 1..Len(reqs) : ~IsLoginRequest(reqs[n])
           /\ Len(reqs) <= 1
           /\ HeaderValueOk(trim_end_slashes(arg.self.url)) =>
                  /\ Len(reqs) = 1
                  /\ IsAddRequest(reqs[1])
                  /\ reqs[1].cookies = <<>>
                  /\ ~arg.web.add.transport_ok => ~r.ok
                  /\ Is2xx(arg.web.add) =>
                         /\ r.ok
                         /\ r.web_response.response = arg.web.add.body
                         /\ r.web_response.success = (arg.web.add.body = <<"O", "k", ".">>)
           /\ \A l \in LoginAnswerInputs, s \in LoginCookies :
                  fetch(arg.self, arg.content, [arg.web EXCEPT !.login = l, !.login_cookie = s]) = r

\* A fetcher without username submitted a link while the login endpoint was
\* unreachable: one request, the add POST, and a result with success = true.
C21_Witness ==
    /\ ret.fn = "fetch"
    /\ arg.self = AnonFetcher
    /\ arg.web.login = TransportError
    /\ arg.web.login_cookie = SessionId
    /\ Len(ret.value.requests) = 1
    /\ IsAddRequest(ret.value.requests[1])
    /\ ret.value.ok
    /\ ret.value.web_response.success

\* C22: the login request targets exactly the concatenation base_url +
\* login_url and the add request exactly base_url + add_url, both with the
\* referer header set to the configured base URL, for every configured base
\* URL, one that ends with "/" included.
C22_TargetsAreConcatenations ==
    ret.fn = "fetch" =>
        LET reqs == ret.value.requests
            base_url == arg.self.url
        IN \A n \in 1..Len(reqs) :
               /\ reqs[n].referer = base_url
               /\ IsLoginRequest(reqs[n]) => reqs[n].url = base_url \o arg.self.login_url
               /\ IsAddRequest(reqs[n]) => reqs[n].url = base_url \o arg.self.add_url

\* The login answer that does not let a submission through: a failed request
\* or a body without "ok" in any case.
LoginFailed(login) ==
    \/ ~Is2xx(login)
    \/ \A n \in 1..Len(login.body) :
         ~(/\ n < Len(login.body)
           /\ login.body[n] \in {"o", "O"}
           /\ login.body[n + 1] \in {"k", "K"})

\* C13: with a non-empty username the login POST is sent before the add POST
\* by the same cookie-keeping client, and if the login request fails
\* (transport, or a status that is not 2xx) or its answer does not contain
\* "ok" in any case, the add POST is never sent and fetch returns an error.
C13_LoginBeforeAdd ==
    (ret.fn = "fetch" /\ arg.self.username # <<>>) =>
        LET reqs == ret.value.requests
        IN /\ \A n \in 1..Len(reqs) :
                IsAddRequest(reqs[n]) =>
                    /\ n = 2
                    /\ IsLoginRequest(reqs[1])
                    /\ reqs[n].cookies = arg.web.login_cookie
           /\ LoginFailed(arg.web.login) =>
                /\ ~ret.value.ok
                /\ \A n \in 1..Len(reqs) : ~IsAddRequest(reqs[n])

(***************************************************************************)
(* Properties of two runs in a row, under SpecRerun.                       *)
(***************************************************************************)
\* Record j was replaced in the first run, and the second run is under way.
AdvancedInFirstRun(j) ==
    /\ run = "second"
    /\ j \in 1..Len(first_run.advances)
    /\ first_run.advances[j] > 0

\* In the second run record j is as the first run left it, in memory and on
\* disk, and that is one advance from what the first run loaded.
OneAdvance(j) ==
    /\ advances[j] = 0
    /\ contents[j] = loaded[j]
    /\ store.readable
    /\ store.content[j] = loaded[j]
    /\ loaded[j] \in {NextEpisodeOf(first_run.loaded[j]), NextSeasonOf(first_run.loaded[j])}

\* C14 as stated: a run right after a run that advanced record i does not
\* advance record i a second time when the next-episode candidate of its
\* now-current value is not discoverable: the store shows exactly one advance
\* of the record.
C14_NoSecondAdvance ==
    ( /\ log # <<>>
      /\ AdvancedInFirstRun(log[1].i)
      /\ log[1].op = "find" /\ log[1].k = 1 /\ Errored(log[1]) ) =>
        OneAdvance(log[1].i)

\* C14, amended: a run right after a run that advanced record i does not
\* advance record i a second time when neither the next-episode nor the
\* next-season candidate of its now-current value is discoverable: the
\* store shows exactly one advance of the record.
C14_NoSecondAdvanceUndiscovered ==
    ( /\ log # <<>>
      /\ AdvancedInFirstRun(log[1].i)
      /\ \A n \in 1..Len(log) : log[n].op = "find" => Errored(log[n]) ) =>
        OneAdvance(log[1].i)

\* The second run is through with a record the first run advanced to its
\* next episode: both of its candidates were searched for and not found, and
\* the record is on disk as the first run left it.
C14_Witness ==
    /\ log # <<>>
    /\ AdvancedInFirstRun(log[1].i)
    /\ Len(log) = 2
    /\ Errored(log[1]) /\ log[1].k = 1
    /\ Errored(log[2]) /\ log[2].k = 2
    /\ pc \in {"for_i", "returned"}
    /\ loaded[log[1].i] = NextEpisodeOf(first_run.loaded[log[1].i])
    /\ store.content[log[1].i] = loaded[log[1].i]

(***************************************************************************)
(* Further properties of a run, under Spec.                                *)
(***************************************************************************)
\* C15: with a discovery strategy that always succeeds and a submission
\* strategy that always answers "Ok.", one run leaves every record with
\* second incremented by exactly 1 and first and every other field
\* unchanged, in memory and in the store on disk: as long as every call has
\* succeeded so, this is true of every record main is through with, and of
\* every record when main returns Ok.
C15_AllSucceedEpisodeUp ==
    (all_ok /\ exit \in {"running", "Ok"}) =>
        /\ \A j \in 1..Len(contents) :
             j < i =>
                 /\ contents[j].second = loaded[j].second + 1
                 /\ \A f \in DOMAIN loaded[j] \ {"second"} : contents[j][f] = loaded[j][f]
                 /\ DOMAIN contents[j] = DOMAIN loaded[j]
                 /\ store.readable
                 /\ store.content[j] = contents[j]
        /\ exit = "Ok" =>
               /\ i = Len(loaded) + 1
               /\ Len(contents) = Len(loaded)
               /\ store = StoreFile(TRUE, contents)

\* A run over two records returned Ok after every search had found its
\* release and every submission had been answered "Ok.": both records are one
\* episode on, in memory and on disk.
C15_Witness ==
    /\ pc = "returned" /\ exit = "Ok"
    /\ all_ok
    /\ Len(loaded) = 2
    /\ \A j \in 1..2 :
         /\ contents[j].second = loaded[j].second + 1
         /\ contents[j].first = loaded[j].first
    /\ store.content = contents
    /\ n_writes = 2

\* C16: the submission strategy is invoked for a candidate only after the
\* discovery of that same candidate returned a reference, and with exactly
\* that reference; when the discovery of a candidate fails, no submission is
\* made for it.
C16_FetchAfterFind ==
    /\ \A n \in 1..Len(log) :
         log[n].op = "fetch" =>
             /\ n > 1
             /\ log[n - 1].op = "find"
             /\ log[n - 1].result.ok
             /\ log[n - 1].i = log[n].i
             /\ log[n - 1].k = log[n].k
             /\ log[n].content = log[n - 1].result.web_file
             /\ log[n].content.content = log[n - 1].content
    /\ \A n \in 1..Len(log) :
         (log[n].op = "find" /\ Errored(log[n])) =>
             \A m \in 1..Len(log) :
                 log[m].op = "fetch" =>
                     /\ log[m].k # log[n].k
                     /\ log[m].content.content # log[n].content
    /\ pc = "fetch" =>
           /\ log # <<>>
           /\ Last(log).op = "find"
           /\ Last(log).result.ok
           /\ Last(log).k = k
           /\ web_file = Last(log).result.web_file

\* The next-season candidate was submitted with the reference its own search
\* returned, after the search for the next-episode candidate had failed and
\* nothing had been submitted for that one.
C16_Witness ==
    /\ Len(log) >= 3
    /\ log[1].op = "find" /\ log[1].k = 1 /\ Errored(log[1])
    /\ log[2].op = "find" /\ log[2].k = 2 /\ log[2].result.ok
    /\ log[3].op = "fetch" /\ log[3].k = 2
    /\ log[3].content = log[2].result.web_file
    /\ log[3].result.requests # <<>>

\* How many calls of kind op the log holds for candidate c of the record.
CallsFor(op, c) == Cardinality({ n \in 1..Len(log) : log[n].op = op /\ log[n].k = c })

\* C17: within one run every candidate is the subject of at most one
\* discovery call and at most one submission call, no failed call is
\* repeated, and so a run over N records makes at most 2N discovery calls
\* and at most 2N submission calls.
C17_NoRetry ==
    /\ \A n \in 1..Len(log) :
         /\ log[n].k \in 1..2
         /\ log[n].i = log[1].i
         /\ log[n].i \in {i - 1, i}
    /\ \A c \in 1..2 :
         /\ CallsFor("find", c) <= 1
         /\ CallsFor("fetch", c) <= 1
    /\ \A n \in 1..Len(log), m \in 1..Len(log) :
         (n < m /\ log[n].op \in {"find", "fetch"} /\ log[n].op = log[m].op) =>
             log[n].content # log[m].content
    /\ n_find <= 2 * Len(loaded)
    /\ n_fetch <= 2 * Len(loaded)
    /\ n_find <= 2 * i
    /\ n_fetch <= n_find

\* A run over two records ended after four discovery calls and four
\* submission calls: for each record the first submission returned an error,
\* and the second candidate was searched for and submitted.
C17_Witness ==
    /\ pc = "returned"
    /\ Len(loaded) = 2
    /\ n_find = 4
    /\ n_fetch = 4
    /\ CallsFor("find", 1) = 1 /\ CallsFor("find", 2) = 1
    /\ CallsFor("fetch", 1) = 1 /\ CallsFor("fetch", 2) = 1
    /\ Errored(log[2])

\* The number of records of the run: of the file until it is loaded.
RecordCount == IF pc \in {"load_crawlers", "load_contents"} THEN Len(store.content)
               ELSE Len(contents)

\* An upper bound of the steps main has left: for a record, the head of the
\* loop, two searches, two submissions and a write.
StepsLeft ==
    CASE pc = "returned" -> 0
      [] pc = "load_crawlers" -> 6 * RecordCount + 4
      [] pc = "load_contents" -> 6 * RecordCount + 3
      [] pc = "load_fetchers" -> 6 * RecordCount + 2
      [] pc = "for_i" -> 6 * (RecordCount + 1 - i) + 1
      [] pc = "find" -> 6 * (RecordCount - i) + 1 + (IF k = 1 THEN 5 ELSE 3)
      [] pc = "fetch" -> 6 * (RecordCount - i) + 1 + (IF k = 1 THEN 4 ELSE 2)
      [] pc = "save" -> 6 * (RecordCount - i) + 2

\* Record j was replaced, once, by one of its two candidates.
Advanced(j) ==
    /\ advances[j] = 1
    /\ contents[j] \in {NextEpisodeOf(loaded[j]), NextSeasonOf(loaded[j])}
\* Record j is unchanged.
ExhaustedCandidates(j) ==
    /\ advances[j] = 0
    /\ contents[j] = loaded[j]

\* C18: given that every call returns and every store write succeeds, a run
\* over a finite store terminates: main returns, every step it takes brings
\* it nearer to that by a measure that cannot fall below zero, and it never
\* stands still before; when it has returned Ok each record is in exactly one
\* of the states Advanced and ExhaustedCandidates.
C18_Terminates ==
    /\ <>(pc = "returned")
    /\ [][StepsLeft' < StepsLeft]_vars
    /\ [](StepsLeft >= 0)
    /\ [](pc # "returned" => ENABLED Next)
    /\ []((pc = "returned" /\ exit = "Ok") =>
            /\ i = Len(contents) + 1
            /\ \A j \in 1..Len(contents) :
                 /\ Advanced(j) \/ ExhaustedCandidates(j)
                 /\ ~(Advanced(j) /\ ExhaustedCandidates(j)))

\* A run over two records has returned Ok with the first record advanced and
\* the second unchanged after both of its candidates failed.
C18_Witness ==
    /\ pc = "returned" /\ exit = "Ok"
    /\ Len(contents) = 2
    /\ Advanced(1) /\ ~ExhaustedCandidates(1)
    /\ ExhaustedCandidates(2) /\ ~Advanced(2)
    /\ n_find >= 3

\* List q has the records of list orig, each in its place and each as it
\* was, one episode on or one season on, with no other field changed.
SameRecords(q, orig) ==
    /\ Len(q) = Len(orig)
    /\ \A j \in 1..Len(orig) :
         /\ q[j] \in {orig[j], NextEpisodeOf(orig[j]), NextSeasonOf(orig[j])}
         /\ DOMAIN q[j] = DOMAIN orig[j]
         /\ \A f \in DOMAIN orig[j] \ {"first", "second"} : q[j][f] = orig[j][f]

\* C19: in every state of a run the list in memory and every store image
\* written have the length and the record positions of the list loaded at
\* the start, and each record is its loaded value, its next-episode candidate
\* or its next-season candidate: no record is added, removed, moved, or
\* changed in a field other than first and second.
C19_SameRecords ==
    /\ pc \in {"load_fetchers", "for_i", "find", "fetch", "save"} =>
           (store0.readable /\ loaded = store0.content /\ SameRecords(contents, loaded))
    /\ pc = "returned" =>
           \/ contents = <<>> /\ loaded = <<>> /\ store = store0
           \/ store0.readable /\ loaded = store0.content /\ SameRecords(contents, loaded)
    /\ pc \in {"load_crawlers", "load_contents"} => (contents = <<>> /\ store = store0)
    /\ (store.readable /\ store0.readable) => SameRecords(store.content, store0.content)
    /\ ~store0.readable => (store = store0 /\ contents = <<>>)

\* The store was written with the second of two records replaced by its
\* next-season candidate and the first as it was loaded.
C19_Witness ==
    /\ Len(loaded) = 2
    /\ n_writes = 1
    /\ store.readable
    /\ store.content = contents
    /\ contents[1] = loaded[1]
    /\ contents[2] = NextSeasonOf(loaded[2])
    /\ contents[2] # loaded[2]

\* The calls of find the log holds.
FindsInLog == Cardinality({ n \in 1..Len(log) : log[n].op = "find" })

\* C20: records are processed strictly in store order, one cycle of
\* discovery and submission at a time: all calls under way are for one
\* record; when a call for record i is made, each record before it has had
\* its calls and its store write, if any, is done, and no record after it
\* has been touched.
C20_OneRecordAtATime ==
    /\ loaded # <<>> => i \in 1..(Len(loaded) + 1)
    /\ \A n \in 1..Len(log) :
         log[n].i = (IF pc \in {"find", "fetch", "save"} \/ exit \in {"Err", "panic"}
                     THEN i ELSE i - 1)
    /\ pc \in {"find", "fetch", "save"} =>
         /\ i \in 1..Len(contents)
         /\ n_find - FindsInLog >= i - 1
         /\ n_find - FindsInLog <= 2 * (i - 1)
         /\ \A j \in 1..Len(contents) :
              j > i => (contents[j] = loaded[j] /\ advances[j] = 0)
         /\ contents[i] = loaded[i]
         /\ store = StoreFile(TRUE, contents)
         /\ n_writes = SumSeq(advances)
    /\ pc = "for_i" =>
         /\ n_find >= i - 1
         /\ \A j \in 1..Len(contents) :
              j >= i => (contents[j] = loaded[j] /\ advances[j] = 0)

\* The first search for the second record is under way after the first
\* record was searched for twice, submitted, replaced and written.
C20_Witness ==
    /\ pc = "find"
    /\ i = 2
    /\ log = <<>>
    /\ n_find = 2
    /\ n_fetch >= 1
    /\ advances[1] = 1
    /\ store.content[1] = contents[1]
    /\ contents[1] # loaded[1]
    /\ contents[2] = loaded[2]

\* A reference that is resolved relative to a base: neither an absolute URL
\* nor an opaque one.
IsRelative(href) == ~starts_with(href, Scheme) /\ ~starts_with(href, OpaqueScheme)

\* C23: in stage 2 of find a relative href is resolved against the original
\* search URL built in stage 1 (base + search path + query parameters), the
\* URL of the first request, not against the URL of the result page that
\* stage 2 fetched.
C23_Stage2ResolvesAgainstSearchUrl ==
    \A n \in 1..Len(log) :
        (log[n].op = "find" /\ log[n].result.ok) =>
            LET e == log[n]
                self == crawlers[1]
                reqs == e.result.requests
                search == SearchUrl(self, e.content)
                page == UrlParse(reqs[2].url).url
                usable == UsablePositions(search, e.answers[2].body, self.second_stage_match)
                href == e.answers[2].body[Min(usable)].href
            IN /\ reqs[1].url =
                    self.url \o self.search_page
                      \o QueryString(<< <<self.search_get_name, to_query(e.content)>>,
                                        <<self.categories_get_name, self.categories[1]>>,
                                        <<self.categories_get_name, self.categories[2]>> >>, 1)
               /\ reqs[1].url = UrlString(search)
               /\ e.result.web_file.link = UrlString(UrlJoin(search, href).url)
               /\ (IsRelative(href) /\ UrlJoin(page, href) # UrlJoin(search, href)) =>
                      e.result.web_file.link # UrlString(UrlJoin(page, href).url)

\* find returned "h://t/f" for the relative href "f" of a release page it had
\* fetched from below "h://t/t/": the href was resolved against the search
\* URL "h://t/s?..".
C23_Witness ==
    /\ log # <<>>
    /\ Last(log).op = "find"
    /\ Last(log).result.ok
    /\ starts_with(Last(log).result.requests[1].url, <<"h", ":", "/", "/", "t", "/", "s", "?">>)
    /\ starts_with(Last(log).result.requests[2].url, <<"h", ":", "/", "/", "t", "/", "t", "/">>)
    /\ Last(log).answers[2].body = MagnetPage
    /\ Last(log).result.web_file.link = <<"h", ":", "/", "/", "t", "/", "f">>
    /\ UrlString(UrlJoin(UrlParse(Last(log).result.requests[2].url).url, <<"f">>).url)
         = <<"h", ":", "/", "/", "t", "/", "t", "/", "f">>

(***************************************************************************)
(* The strategy a call goes to, under Spec.                                *)
(***************************************************************************)
\* C28: every discovery call of a run goes to the first entry of the loaded
\* discovery-strategy list and every submission call to the first entry of
\* the loaded submission-strategy list: the requests a call issues are those
\* of the first entry, and an entry at index 1 or higher is never invoked,
\* whatever the first entry returned.
C28_FirstStrategyOnly ==
    /\ pc \in {"for_i", "find", "fetch", "save"} =>
           (crawlers = crawlers_file.content /\ fetchers = fetchers_file.content)
    /\ \A n \in 1..Len(log) :
         LET e == log[n]
         IN /\ e.op = "find" =>
                  /\ e.self = crawlers_file.content[1]
                  /\ \A m \in 1..Len(e.result.requests) :
                       /\ starts_with(e.result.requests[m].url, e.self.url)
                       /\ e.result.requests[m].user_agent = e.self.user_agent
                  /\ UrlParse(e.self.url).ok <=> e.result.err # "url"
            /\ e.op = "fetch" =>
                  /\ e.self = fetchers_file.content[1]
                  /\ \A m \in 1..Len(e.result.requests) :
                       starts_with(e.result.requests[m].url, trim_end_slashes(e.self.url))
                  /\ (e.self.username # <<>> /\ e.result.requests # <<>>) =>
                         /\ IsLoginRequest(e.result.requests[1])
                         /\ e.result.requests[1].form[1][2] = e.self.username
                  /\ e.self.username = <<>> =>
                         \A m \in 1..Len(e.result.requests) : ~IsLoginRequest(e.result.requests[m])

\* With two discovery strategies and two submission strategies loaded, the
\* first discovery strategy failed on the next-episode candidate and was
\* called again for the next-season candidate, and the submission went to
\* the first submission strategy, which logs in; the second of each, a
\* crawler without a usable base URL and a fetcher without login, was not
\* called.
C28_Witness ==
    /\ Len(crawlers) = 2
    /\ Len(fetchers) = 2
    /\ Len(log) >= 3
    /\ log[1].op = "find" /\ Errored(log[1]) /\ log[1].self = crawlers[1]
    /\ log[2].op = "find" /\ log[2].result.ok /\ log[2].self = crawlers[1]
    /\ log[3].op = "fetch" /\ log[3].self = fetchers[1]
    /\ crawlers[2] # crawlers[1]
    /\ fetchers[2] # fetchers[1]
    /\ IsLoginRequest(log[3].result.requests[1])

(***************************************************************************)
(* Properties of a run that stops on a failed store write and is started   *)
(* again, under SpecRetry.                                                 *)
(***************************************************************************)
\* C29: the index into the strategy lists is always in bounds: a run whose
\* crawlers or fetchers store loaded with zero entries does not abort on an
\* index out of range while it processes the records of a non-empty store.
C29_IndexInBounds ==
    (/\ pc = "returned"
     /\ crawlers_file.readable
     /\ fetchers_file.readable
     /\ (crawlers_file.content = <<>> \/ fetchers_file.content = <<>>)
     /\ loaded # <<>>)
        => exit # "panic"

\* The run stopped at the failed write for record i: the candidate had been
\* submitted, main returned the error, and nothing was processed after it.
StoppedAtFailedWrite ==
    /\ pc = "returned"
    /\ exit = "Err"
    /\ i = Last(log).i
    /\ k = Last(log).k
    /\ Len(log) >= 3
    /\ log[Len(log) - 1].op = "fetch"
    /\ log[Len(log) - 1].result.ok
    /\ log[Len(log) - 1].k = k
    /\ log[Len(log) - 1].content.content = predictions[k]
    /\ contents[i] = predictions[k]
    /\ \A j \in 1..Len(contents) : j > i => (contents[j] = loaded[j] /\ advances[j] = 0)
    /\ n_find <= 2 * i

\* The second run meets the record of the failed write as the first run had
\* loaded it and predicts the same candidates; what it submits for the
\* candidate of the failed write is that candidate again.
SubmitsSameAgain ==
    LET f == first_run.failed
    IN /\ loaded # <<>> =>
              /\ Len(loaded) = Len(first_run.loaded)
              /\ loaded[f.i] = first_run.loaded[f.i]
       /\ (pc \in {"find", "fetch", "save"} /\ i = f.i) =>
              /\ predictions = predict_new_content(first_run.loaded[f.i])
              /\ predictions[f.k] = f.content
              /\ \A n \in 1..Len(log) :
                   (log[n].op = "fetch" /\ log[n].k = f.k) =>
                       log[n].content.content = f.content

EditedAfterLoad ==
    /\ last_edit.written
    /\ ~SameRecords(last_edit.image, loaded)

\* C26: the content store is read once at the start of a run and never
\* re-read: the list in memory stays the loaded records and their
\* candidates whatever an external writer (the editor's add, update or
\* delete) puts on disk after the load, and a later successful advance
\* rewrites the whole store from that list, so that the writer's change is
\* overwritten and lost.
C26_ExternalWriteIsLost ==
    /\ pc \in {"load_fetchers", "for_i", "find", "fetch", "save"} =>
           SameRecords(contents, loaded)
    /\ (EditedAfterLoad /\ ~last_edit.overwritten /\ pc # "returned") =>
           /\ store = StoreFile(TRUE, last_edit.image)
           /\ store.content # contents
    /\ (EditedAfterLoad /\ last_edit.overwritten /\ exit \in {"running", "Ok"}) =>
           /\ store = StoreFile(TRUE, contents)
           /\ store.content # last_edit.image
           /\ Len(store.content) = Len(loaded)
           /\ SameRecords(store.content, loaded)

\* The editor added a record while the run was searching for its first
\* record; the run then advanced that record and wrote the store, which holds
\* the run's list and not the added record.
C26_Witness ==
    /\ EditedAfterLoad
    /\ last_edit.overwritten
    /\ Len(last_edit.image) = Len(loaded) + 1
    /\ Last(last_edit.image) = RecordEf
    /\ n_writes = 1
    /\ store = StoreFile(TRUE, contents)
    /\ Len(store.content) = Len(loaded)
    /\ \A j \in 1..Len(store.content) : store.content[j] # RecordEf
    /\ contents[1] = NextEpisodeOf(loaded[1])

(***************************************************************************)
(* Properties of the editor's requests on the content store, under         *)
(* SpecApp.                                                                *)
(***************************************************************************)
\* new is old with the entry at index idx (from 0) replaced by payload.
ReplacedAt(old, new, idx, payload) ==
    /\ Len(new) = Len(old)
    /\ new[idx + 1] = payload
    /\ \A j \in 1..Len(old) : j # idx + 1 => new[j] = old[j]

\* new is old without the entry at index idx (from 0), the others in order.
RemovedAt(old, new, idx) ==
    /\ Len(new) = Len(old) - 1
    /\ \A j \in 1..Len(new) : new[j] = IF j <= idx THEN old[j] ELSE old[j + 1]

\* C31: an update or delete request whose index is greater than or equal to
\* the number of stored entries is answered not found and writes nothing,
\* so that the store stays as it was; a request with an index in range that
\* is answered with success has written the entries it read with exactly
\* the entry at that index replaced or removed and the others in order.
C31_IndexChecked ==
    /\ (\A h \in Handlers : ~handlers[h].wrote) => store = store0
    /\ \A h \in Handlers :
         LET s == handlers[h]
         IN (s.pc = "done" /\ s.req.op \in {"update", "delete"}) =>
              /\ (s.got /\ s.req.idx >= Len(s.read)) =>
                     (s.resp = "not_found" /\ ~s.wrote)
              /\ s.resp = "not_found" => (s.got /\ s.req.idx >= Len(s.read) /\ ~s.wrote)
              /\ s.resp = "ok" =>
                     /\ s.got /\ s.wrote
                     /\ s.req.idx < Len(s.read)
                     /\ s.after.readable
                     /\ s.req.op = "update" =>
                            ReplacedAt(s.read, s.after.content, s.req.idx, s.req.payload)
                     /\ s.req.op = "delete" =>
                            RemovedAt(s.read, s.after.content, s.req.idx)

\* On a store of MaxRecords entries, a delete with the index MaxRecords was
\* answered not found with nothing written, and then an update of the last
\* entry, which found the store as it had read it, was answered with success
\* and left the store with that entry replaced.
C31_Witness ==
    /\ Len(store0.content) = MaxRecords
    /\ handlers[1].pc = "done"
    /\ handlers[1].req.op = "delete"
    /\ handlers[1].req.idx = MaxRecords
    /\ handlers[1].resp = "not_found"
    /\ handlers[2].pc = "done"
    /\ handlers[2].req.op = "update"
    /\ handlers[2].req.idx = MaxRecords - 1
    /\ handlers[2].resp = "ok"
    /\ handlers[2].before = store0
    /\ handlers[2].read = store0.content
    /\ store = handlers[2].after
    /\ store.content[MaxRecords] = PayloadOf(2)
    /\ store.content[1] = store0.content[1]

\* The list holds the record.
Holds(list, record) == \E j \in 1..Len(list) : list[j] = record

\* C32: when two add requests are handled at the same time and both are
\* answered with success, and no other request has written the store, the
\* store afterwards holds both added records.
C32_NoLostAdd ==
    \A a, b \in Handlers :
        (/\ a # b
         /\ handlers[a].req.op = "add" /\ handlers[a].resp = "ok"
         /\ handlers[b].req.op = "add" /\ handlers[b].resp = "ok"
         /\ \A h \in Handlers \ {a, b} : ~handlers[h].wrote)
            => /\ store.readable
               /\ Holds(store.content, handlers[a].req.payload)
               /\ Holds(store.content, handlers[b].req.payload)

=============================================================================
